---------------------------- MODULE Spec2Model ----------------------------
(***************************************************************************)
(* The code-quality PostToolUse hook (code_quality_check.py): main() and   *)
(* the four line-oriented detectors it runs over the lines of one file.    *)
(*                                                                         *)
(* A line is a string.  TLC cannot index into a string, so Chars gives     *)
(* each line of the input alphabet as its sequence of characters, and the  *)
(* regular expressions and str methods of the code are operators on such   *)
(* sequences.  A position p in 0..Len(s) means "p characters consumed".    *)
(***************************************************************************)
EXTENDS Integers, Sequences, FiniteSets, TLC

(***************************************************************************)
(* Characters.                                                             *)
(***************************************************************************)
\* str.isspace / the regex class \s, over the characters of the alphabet
Whitespace == {" ", "\t", "\n", "\f"}

\* the regex class \w, over the characters of the alphabet
WordChar ==
  { "a","b","c","d","e","f","g","h","i","j","k","l","m","n","o","p","q","r",
    "s","t","u","v","w","x","y","z","T","U","_","0","1","2","3","4","5","6",
    "7","8","9" }

\* the lower-case letter of each upper-case letter
Lowered ==
     "A" :> "a" @@ "B" :> "b" @@ "C" :> "c" @@ "D" :> "d" @@ "E" :> "e" @@ "F" :> "f"
  @@ "G" :> "g" @@ "H" :> "h" @@ "I" :> "i" @@ "J" :> "j" @@ "K" :> "k" @@ "L" :> "l"
  @@ "M" :> "m" @@ "N" :> "n" @@ "O" :> "o" @@ "P" :> "p" @@ "Q" :> "q" @@ "R" :> "r"
  @@ "S" :> "s" @@ "T" :> "t" @@ "U" :> "u" @@ "V" :> "v" @@ "W" :> "w" @@ "X" :> "x"
  @@ "Y" :> "y" @@ "Z" :> "z"

\* str.lower() on one character
LowerChar(c) == IF c \in DOMAIN Lowered THEN Lowered[c] ELSE c

\* the lines a file is made of, each with its characters; "<U+FFFD>" is the
\* one character that open(..., errors="replace") puts in place of a byte
\* that is not UTF-8 text (neither whitespace nor a word character)
Chars ==
     "def foo():\n" :> <<"d","e","f"," ","f","o","o","(",")",":","\n">>
  @@ "function bar() {\n" :> <<"f","u","n","c","t","i","o","n"," ","b","a","r","(",")"," ","{","\n">>
  @@ "const f = (a) => {\n" :> <<"c","o","n","s","t"," ","f"," ","="," ","(","a",")"," ","=",">"," ","{","\n">>
  @@ "const x = 5\n" :> <<"c","o","n","s","t"," ","x"," ","="," ","5","\n">>
  @@ "public run() {\n" :> <<"p","u","b","l","i","c"," ","r","u","n","(",")"," ","{","\n">>
  @@ "    x = 1\n" :> <<" "," "," "," ","x"," ","="," ","1","\n">>
  @@ "\n" :> <<"\n">>
  @@ "\t\t\t\t\tx\n" :> <<"\t","\t","\t","\t","\t","x","\n">>
  @@ "                x\n" :> <<" "," "," "," "," "," "," "," "," "," "," "," "," "," "," "," ","x","\n">>
  @@ "                    x\n" :> <<" "," "," "," "," "," "," "," "," "," "," "," "," "," "," "," "," "," "," "," ","x","\n">>
  @@ " \t \tx\n" :> <<" ","\t"," ","\t","x","\n">>
  @@ "\t\t\t\t\t\t\n" :> <<"\t","\t","\t","\t","\t","\t","\n">>
  @@ "\f                   x\n" :> <<"\f"," "," "," "," "," "," "," "," "," "," "," "," "," "," "," "," "," "," "," ","x","\n">>
  @@ "# import foo\n" :> <<"#"," ","i","m","p","o","r","t"," ","f","o","o","\n">>
  @@ "    // return x;\n" :> <<" "," "," "," ","/","/"," ","r","e","t","u","r","n"," ","x",";","\n">>
  @@ "# This is a prose comment\n" :> <<"#"," ","T","h","i","s"," ","i","s"," ","a"," ","p","r","o","s","e"," ","c","o","m","m","e","n","t","\n">>
  @@ "\t\t\t\t\t# import foo\n" :> <<"\t","\t","\t","\t","\t","#"," ","i","m","p","o","r","t"," ","f","o","o","\n">>
  @@ "<U+FFFD><U+FFFD>\n" :> <<"<U+FFFD>","<U+FFFD>","\n">>

Lines == DOMAIN Chars

\* the file paths the host may hand over, each with its characters
PathChars ==
     "" :> <<>>
  @@ "src/app.py" :> <<"s","r","c","/","a","p","p",".","p","y">>
  @@ "lib/Utils.js" :> <<"l","i","b","/","U","t","i","l","s",".","j","s">>
  @@ "tests/test_app.py" :> <<"t","e","s","t","s","/","t","e","s","t","_","a","p","p",".","p","y">>
  @@ "dist/app.js" :> <<"d","i","s","t","/","a","p","p",".","j","s">>
  @@ "src/inspector.py" :> <<"s","r","c","/","i","n","s","p","e","c","t","o","r",".","p","y">>

Paths == DOMAIN PathChars

(***************************************************************************)
(* str and re primitives on character sequences.                           *)
(***************************************************************************)
\* s[p+1 .. p+Len(w)] = w
HasAt(s, p, w) ==
  /\ p + Len(w) <= Len(s)
  /\ \A k \in 1..Len(w) : s[p + k] = w[k]

\* `w in s`, and re.search of a literal
Contains(s, w) == \E p \in 0..Len(s) : HasAt(s, p, w)

\* the positions after a literal w matched at a position of P
Lit(s, P, w) == { p + Len(w) : p \in { q \in P : HasAt(s, q, w) } }

\* the positions after any one of the literals ws (an alternation)
AnyLit(s, P, ws) == UNION { Lit(s, P, w) : w \in ws }

\* the positions after C* (Many) and C+ (Some) matched at a position of P,
\* every length the backtracking matcher may settle on
Many(s, P, C) ==
  { q \in 0..Len(s) : \E p \in P : p <= q /\ \A k \in (p + 1)..q : s[k] \in C }

Some(s, P, C) ==
  { q \in 0..Len(s) : \E p \in P : p < q /\ \A k \in (p + 1)..q : s[k] \in C }

\* the number of leading characters of s that are in C
RECURSIVE LeadingRun(_, _)
LeadingRun(s, C) ==
  IF s # <<>> /\ Head(s) \in C THEN 1 + LeadingRun(Tail(s), C) ELSE 0

\* the number of trailing characters of s that are in C
RECURSIVE TrailingRun(_, _)
TrailingRun(s, C) ==
  IF s # <<>> /\ s[Len(s)] \in C
    THEN 1 + TrailingRun(SubSeq(s, 1, Len(s) - 1), C)
    ELSE 0

\* str.lstrip(), str.rstrip(), str.strip()
lstrip(s) == SubSeq(s, LeadingRun(s, Whitespace) + 1, Len(s))
rstrip(s) == SubSeq(s, 1, Len(s) - TrailingRun(s, Whitespace))
strip(s) == rstrip(lstrip(s))

\* str.count(c)
count(s, c) == Cardinality({ k \in 1..Len(s) : s[k] = c })

\* str.lower()
lower(s) == [k \in 1..Len(s) |-> LowerChar(s[k])]

\* the string a character sequence spells
RECURSIVE Join(_)
Join(cs) == IF cs = <<>> THEN "" ELSE Head(cs) \o Join(Tail(cs))

(***************************************************************************)
(* The patterns of the detectors.                                          *)
(***************************************************************************)
\* func_pattern.search(line): the pattern is anchored at the start of the
\* line; each definition below is the set of positions one branch of the
\* alternation can reach
FuncKeywordEnds(s, P) ==
  AnyLit(s, P, { <<"d","e","f"," ">>,
                 <<"f","u","n","c","t","i","o","n"," ">>,
                 <<"a","s","y","n","c"," ","f","u","n","c","t","i","o","n"," ">>,
                 <<"f","u","n","c"," ">> })

\* (?:export\s+)?(?:async\s+)?(?:function\s+)?(?:const|let|var)\s+\w+\s*=\s*(?:async\s*)?\(?
BindingEnds(s, P) ==
  LET e  == P \cup Some(s, Lit(s, P, <<"e","x","p","o","r","t">>), Whitespace)
      a  == e \cup Some(s, Lit(s, e, <<"a","s","y","n","c">>), Whitespace)
      f  == a \cup Some(s, Lit(s, a, <<"f","u","n","c","t","i","o","n">>), Whitespace)
      k  == AnyLit(s, f, { <<"c","o","n","s","t">>, <<"l","e","t">>, <<"v","a","r">> })
      n  == Many(s, Some(s, Some(s, k, Whitespace), WordChar), Whitespace)
      eq == Many(s, Lit(s, n, <<"=">>), Whitespace)
      as == eq \cup Many(s, Lit(s, eq, <<"a","s","y","n","c">>), Whitespace)
  IN  as \cup Lit(s, as, <<"(">>)

\* (?:public|private|protected)\s+(?:static\s+)?(?:async\s+)?\w+\s*\(
MethodEnds(s, P) ==
  LET v  == Some(s, AnyLit(s, P, { <<"p","u","b","l","i","c">>,
                                   <<"p","r","i","v","a","t","e">>,
                                   <<"p","r","o","t","e","c","t","e","d">> }),
                 Whitespace)
      st == v \cup Some(s, Lit(s, v, <<"s","t","a","t","i","c">>), Whitespace)
      a  == st \cup Some(s, Lit(s, st, <<"a","s","y","n","c">>), Whitespace)
  IN  Lit(s, Many(s, Some(s, a, WordChar), Whitespace), <<"(">>)

func_pattern(s) ==
  LET P == Many(s, {0}, Whitespace)
  IN  FuncKeywordEnds(s, P) \cup BindingEnds(s, P) \cup MethodEnds(s, P) # {}

\* re.search(r"(?:def|function|func|const|let|var)\s+(\w+)", line): the
\* positions where a keyword, then whitespace, then a word starts
NameKeywords ==
  { <<"d","e","f">>, <<"f","u","n","c","t","i","o","n">>, <<"f","u","n","c">>,
    <<"c","o","n","s","t">>, <<"l","e","t">>, <<"v","a","r">> }

NameStarts(s, p) ==
  { q \in Some(s, AnyLit(s, {p}, NameKeywords), Whitespace) :
      /\ q < Len(s)
      /\ s[q + 1] \in WordChar }

\* match.group(1) of the leftmost match (\s+ and \w+ are greedy), or
\* "anonymous" when there is no match
func_name_of(s) ==
  LET starts == { p \in 0..Len(s) : NameStarts(s, p) # {} }
  IN  IF starts = {}
        THEN "anonymous"
        ELSE LET p0 == CHOOSE p \in starts : \A r \in starts : p <= r
                 q == CHOOSE n \in NameStarts(s, p0) :
                        \A m \in NameStarts(s, p0) : m <= n
                 rest == SubSeq(s, q + 1, Len(s))
             IN  Join(SubSeq(rest, 1, LeadingRun(rest, WordChar)))

\* comment_pattern.match(stripped)
comment_pattern(s) ==
  AnyLit(s, Many(s, {0}, Whitespace),
         { <<"/","/">>, <<"#">>, <<"-","-">>, <<"/","*">>, <<"*">> }) # {}

\* code_keywords.search(stripped)
code_keywords(s) ==
  \E w \in { <<"f","u","n","c","t","i","o","n">>, <<"c","l","a","s","s">>,
             <<"i","f">>, <<"f","o","r">>, <<"w","h","i","l","e">>,
             <<"r","e","t","u","r","n">>, <<"i","m","p","o","r","t">>,
             <<"c","o","n","s","t">>, <<"l","e","t">>, <<"v","a","r">>,
             <<"d","e","f"," ">>, <<";">>, <<"{">>, <<"}">>, <<"(">>, <<")">> } :
    Contains(s, w)

(***************************************************************************)
(* Thresholds.                                                             *)
(***************************************************************************)
MAX_FUNCTION_LINES == 50
MAX_NESTING_DEPTH == 4
MAX_FILE_LINES == 500
MAX_COMMENTED_BLOCK == 10

\* Python's None for func_start and run_start: no index is negative
None == -1

(***************************************************************************)
(* What the detectors read of one line.  The tables hold, for each line of *)
(* the alphabet, the value the operator computes from its characters.      *)
(***************************************************************************)
IsFuncStart == [l \in Lines |-> func_pattern(Chars[l])]

NameOf == [l \in Lines |-> func_name_of(Chars[l])]

\* `not stripped` in check_nesting_depth
is_blank(s) == rstrip(s) = <<>>

IsBlank == [l \in Lines |-> is_blank(Chars[l])]

\* the depth check_nesting_depth gives a line
indent_depth(s) ==
  LET leading == Len(s) - Len(lstrip(s))
      prefix == SubSeq(s, 1, leading)
  IN  IF Contains(prefix, <<"\t">>)
        THEN count(prefix, "\t")
        ELSE leading \div 4

Depth == [l \in Lines |-> indent_depth(Chars[l])]

\* the condition under which check_commented_blocks extends a run
is_commented_code(s) ==
  LET stripped == strip(s)
  IN  comment_pattern(stripped) /\ code_keywords(stripped)

IsCommentedCode == [l \in Lines |-> is_commented_code(Chars[l])]

(***************************************************************************)
(* check_function_size.  A violation is the sequence of the pieces of its  *)
(* f-string.  The accumulator carries the loop's variables, the index i of *)
(* the line the loop is at among them; spans records each (start, end)     *)
(* whose length the code computes.                                         *)
(***************************************************************************)
FunctionMessage(func_start, func_name, length) ==
  << "  Line ", ToString(func_start + 1), ": function '", func_name,
     "' is ", ToString(length), " lines (max ", ToString(MAX_FUNCTION_LINES),
     ")" >>

\* a span of exactly MAX_FUNCTION_LINES lines reported too
FunctionTooLong_AtLeast(length) == length >= MAX_FUNCTION_LINES

\* `length > MAX_FUNCTION_LINES`
FunctionTooLong(length) == length > MAX_FUNCTION_LINES

\* the closing line counted into the span
CloseSpan_Inclusive(acc, end) ==
  LET length == end + 1 - acc.func_start
  IN  [acc EXCEPT
         !.spans = Append(@, [name |-> acc.func_name,
                              start_line |-> acc.func_start,
                              end_line |-> end + 1]),
         !.violations =
           IF FunctionTooLong(length)
             THEN Append(@, FunctionMessage(acc.func_start, acc.func_name, length))
             ELSE @]

\* length = end - func_start, and the report when it is too long
CloseSpan(acc, end) ==
  LET length == end - acc.func_start
  IN  [acc EXCEPT
         !.spans = Append(@, [name |-> acc.func_name,
                              start_line |-> acc.func_start,
                              end_line |-> end]),
         !.violations =
           IF FunctionTooLong(length)
             THEN Append(@, FunctionMessage(acc.func_start, acc.func_name, length))
             ELSE @]

\* a start line on which no name is found keeps the name of the span before
FunctionStep_StaleName(acc, line) ==
  IF IsFuncStart[line]
    THEN LET closed == IF acc.func_start # None THEN CloseSpan(acc, acc.i) ELSE acc
         IN  [closed EXCEPT !.func_start = acc.i,
                            !.func_name = IF NameOf[line] = "anonymous"
                                            THEN acc.func_name
                                            ELSE NameOf[line],
                            !.i = @ + 1]
    ELSE [acc EXCEPT !.i = @ + 1]

\* the body of the for loop, for line acc.i (0-based), and the step to
\* the next line
FunctionStep(acc, line) ==
  IF IsFuncStart[line]
    THEN LET closed == IF acc.func_start # None THEN CloseSpan(acc, acc.i) ELSE acc
         IN  [closed EXCEPT !.func_start = acc.i, !.func_name = NameOf[line],
                            !.i = @ + 1]
    ELSE [acc EXCEPT !.i = @ + 1]

\* the for loop from line acc.i up to line hi - 1, left to right (run in
\* two halves so that the evaluation does not nest as deep as the file is
\* long)
RECURSIVE FunctionLoop(_, _, _)
FunctionLoop(acc, lines, hi) ==
  IF hi <= acc.i THEN acc
  ELSE IF hi = acc.i + 1 THEN FunctionStep(acc, lines[acc.i + 1])
  ELSE FunctionLoop(FunctionLoop(acc, lines, (acc.i + hi) \div 2), lines, hi)

\* the loop alone: the function still open at the end is never looked at
FunctionScan_NoLastFunction(lines) ==
  FunctionLoop([i |-> 0, func_start |-> None, func_name |-> "",
                violations |-> <<>>, spans |-> <<>>],
               lines, Len(lines))

\* the lines before the first start taken for a span that starts at line 0
FunctionScan_FromTop(lines) ==
  LET init == [i |-> 0, func_start |-> 0, func_name |-> "",
               violations |-> <<>>, spans |-> <<>>]
      acc == FunctionLoop(init, lines, Len(lines))
  IN  IF acc.func_start # None THEN CloseSpan(acc, Len(lines)) ELSE acc

\* lines 77-99: the loop, then the function still open at the end
FunctionScan(lines) ==
  LET init == [i |-> 0, func_start |-> None, func_name |-> "",
               violations |-> <<>>, spans |-> <<>>]
      acc == FunctionLoop(init, lines, Len(lines))
  IN  IF acc.func_start # None THEN CloseSpan(acc, Len(lines)) ELSE acc

check_function_size(lines) == FunctionScan(lines).violations

(***************************************************************************)
(* check_nesting_depth.                                                    *)
(***************************************************************************)
NestingMessage(i, depth) ==
  << "  Line ", ToString(i + 1), ": nesting depth ", ToString(depth),
     " (max ", ToString(MAX_NESTING_DEPTH), ")" >>

\* a depth of exactly MAX_NESTING_DEPTH reported too
NestingTooDeep_AtLeast(depth) == depth >= MAX_NESTING_DEPTH

\* `depth > MAX_NESTING_DEPTH`
NestingTooDeep(depth) == depth > MAX_NESTING_DEPTH

\* every line a region of its own
Region_PerLine(i) == i

\* regions cut one line early: indexes 9 and 10 in the same region
Region_Shifted(i) == (i + 1) \div 10

\* `region = i // 10`
Region(i) == i \div 10

\* the depth of a blank line consulted like that of any other line
NestingStep_BlankCounts(acc, line) ==
  IF NestingTooDeep(Depth[line]) /\ Region(acc.i) \notin acc.reported_regions
    THEN [acc EXCEPT
            !.reported_regions = @ \cup {Region(acc.i)},
            !.violations = Append(@, NestingMessage(acc.i, Depth[line])),
            !.i = @ + 1]
    ELSE [acc EXCEPT !.i = @ + 1]

\* lines 109-129: one turn of the loop
NestingStep(acc, line) ==
  IF IsBlank[line] THEN [acc EXCEPT !.i = @ + 1]
  ELSE IF NestingTooDeep(Depth[line]) /\ Region(acc.i) \notin acc.reported_regions
    THEN [acc EXCEPT
            !.reported_regions = @ \cup {Region(acc.i)},
            !.violations = Append(@, NestingMessage(acc.i, Depth[line])),
            !.i = @ + 1]
    ELSE [acc EXCEPT !.i = @ + 1]

RECURSIVE NestingLoop(_, _, _)
NestingLoop(acc, lines, hi) ==
  IF hi <= acc.i THEN acc
  ELSE IF hi = acc.i + 1 THEN NestingStep(acc, lines[acc.i + 1])
  ELSE NestingLoop(NestingLoop(acc, lines, (acc.i + hi) \div 2), lines, hi)

NestingScan(lines) ==
  NestingLoop([i |-> 0, reported_regions |-> {}, violations |-> <<>>],
              lines, Len(lines))

check_nesting_depth(lines) == NestingScan(lines).violations

(***************************************************************************)
(* check_file_size.                                                        *)
(***************************************************************************)
FileMessage(n) ==
  << "  File is ", ToString(n), " lines (max ", ToString(MAX_FILE_LINES), ")" >>

\* a file of exactly MAX_FILE_LINES lines reported too
check_file_size_AtLeast(lines) ==
  IF Len(lines) >= MAX_FILE_LINES THEN << FileMessage(Len(lines)) >> ELSE <<>>

check_file_size(lines) ==
  IF Len(lines) > MAX_FILE_LINES THEN << FileMessage(Len(lines)) >> ELSE <<>>

(***************************************************************************)
(* check_commented_blocks.                                                 *)
(***************************************************************************)
\* a comment-run violation rendered as `  Line a-b: ... (max 10)`
CommentMessage_Uniform(run_start, run_length) ==
  << "  Line ", ToString(run_start + 1), "-", ToString(run_start + run_length),
     ": ", ToString(run_length), " lines of commented-out code",
     " (max ", ToString(MAX_COMMENTED_BLOCK), ")" >>

CommentMessage(run_start, run_length) ==
  << "  Lines ", ToString(run_start + 1), "-", ToString(run_start + run_length),
     ": ", ToString(run_length), " lines of commented-out code" >>

\* a run of exactly MAX_COMMENTED_BLOCK lines not reported
StaleRun_Over(run_length) == run_length > MAX_COMMENTED_BLOCK

\* `run_length >= MAX_COMMENTED_BLOCK`
StaleRun(run_length) == run_length >= MAX_COMMENTED_BLOCK

\* the report of the run that just ended, when it is long enough
FlushRun(acc) ==
  IF StaleRun(acc.run_length)
    THEN Append(acc.violations, CommentMessage(acc.run_start, acc.run_length))
    ELSE acc.violations

\* a blank line passed over without ending the run
CommentStep_BlankKeepsRun(acc, line) ==
  IF IsCommentedCode[line]
    THEN [acc EXCEPT
            !.run_start = IF @ = None THEN acc.i ELSE @,
            !.run_length = @ + 1,
            !.i = @ + 1]
    ELSE IF IsBlank[line]
      THEN [acc EXCEPT !.i = @ + 1]
      ELSE [i |-> acc.i + 1, run_start |-> None, run_length |-> 0,
            violations |-> FlushRun(acc)]

CommentStep(acc, line) ==
  IF IsCommentedCode[line]
    THEN [acc EXCEPT
            !.run_start = IF @ = None THEN acc.i ELSE @,
            !.run_length = @ + 1,
            !.i = @ + 1]
    ELSE [i |-> acc.i + 1, run_start |-> None, run_length |-> 0,
          violations |-> FlushRun(acc)]

RECURSIVE CommentLoop(_, _, _)
CommentLoop(acc, lines, hi) ==
  IF hi <= acc.i THEN acc
  ELSE IF hi = acc.i + 1 THEN CommentStep(acc, lines[acc.i + 1])
  ELSE CommentLoop(CommentLoop(acc, lines, (acc.i + hi) \div 2), lines, hi)

check_commented_blocks(lines) ==
  FlushRun(CommentLoop([i |-> 0, run_start |-> None, run_length |-> 0,
                        violations |-> <<>>],
                       lines, Len(lines)))

(***************************************************************************)
(* should_skip and os.path.basename.                                       *)
(***************************************************************************)
SKIP_PATTERNS ==
  { <<"n","o","d","e","_","m","o","d","u","l","e","s">>,
    <<"v","e","n","d","o","r">>,
    <<"d","i","s","t","/">>,
    <<"b","u","i","l","d","/">>,
    <<".","m","i","n",".">>,
    <<"_","_","p","y","c","a","c","h","e","_","_">>,
    <<".","p","y","c">> }

SKIP_TEST_PATTERNS ==
  { <<"t","e","s","t">>,
    <<"s","p","e","c">>,
    <<"_","t","e","s","t",".","g","o">>,
    <<"_","s","p","e","c",".","r","b">>,
    <<".","t","e","s","t",".">>,
    <<".","s","p","e","c",".">> }

should_skip(file_path) ==
  \E pattern \in SKIP_PATTERNS \cup SKIP_TEST_PATTERNS :
    Contains(lower(PathChars[file_path]), pattern)

\* what follows the last "/" of the path
basename(file_path) ==
  LET s == PathChars[file_path]
      slashes == { k \in 1..Len(s) : s[k] = "/" }
      last == IF slashes = {} THEN 0
              ELSE CHOOSE k \in slashes : \A j \in slashes : j <= k
  IN  Join(SubSeq(s, last + 1, Len(s)))

(***************************************************************************)
(* The state of one run of the hook.                                       *)
(***************************************************************************)
VARIABLES
  data,        \* what stdin holds: [json_ok, tool_name, file_path]
  disk,        \* the file at file_path: [isfile, readable, content]
  pc,          \* where main() is
  lines,       \* f.readlines()
  violations,  \* main's list
  stderr,      \* the lines main prints to sys.stderr
  exit_code,   \* the status of sys.exit, NotExited while running
  fault,       \* the detector call in which an exception is raised, or "none"
  block,       \* one run of block_dangerous.py: [data, pc, stderr, exit_code]
  protect,     \* one run of protect_files.py: [data, pc, stderr, exit_code]
  cdp          \* one run of cdp_connect.py: main's position, the clock, what
               \* poll_cdp has tried so far (log) and what main has printed

vars == << data, disk, pc, lines, violations, stderr, exit_code, fault,
           block, protect, cdp >>

NotExited == -1

\* sys.exit(status)
Exit(status) ==
  /\ pc' = "exited"
  /\ exit_code' = status

\* lines 176-179: json.load(sys.stdin)
ParseInput ==
  /\ pc = "parse"
  /\ IF data.json_ok
       THEN pc' = "guards" /\ UNCHANGED exit_code
       ELSE Exit(1)
  /\ UNCHANGED << cdp, block, protect, fault, data, disk, lines, violations, stderr >>

\* the early exits without the test of should_skip
CheckGuards_NoSkip ==
  /\ pc = "guards"
  /\ IF \/ data.tool_name \notin {"Edit", "Write"}
        \/ data.file_path = ""
        \/ ~disk.isfile
       THEN Exit(0)
       ELSE pc' = "read" /\ UNCHANGED exit_code
  /\ UNCHANGED << cdp, block, protect, fault, data, disk, lines, violations, stderr >>

\* lines 181-195: the early exits that precede the read
CheckGuards ==
  /\ pc = "guards"
  /\ IF \/ data.tool_name \notin {"Edit", "Write"}
        \/ data.file_path = ""
        \/ should_skip(data.file_path)
        \/ ~disk.isfile
       THEN Exit(0)
       ELSE pc' = "read" /\ UNCHANGED exit_code
  /\ UNCHANGED << cdp, block, protect, fault, data, disk, lines, violations, stderr >>

\* an OSError of open or readlines ends the hook with a failure status
ReadFile_Fatal ==
  /\ pc = "read"
  /\ IF disk.readable
       THEN /\ lines' = disk.content
            /\ pc' = "function_size"
            /\ UNCHANGED exit_code
       ELSE Exit(1) /\ UNCHANGED lines
  /\ UNCHANGED << cdp, block, protect, fault, data, disk, violations, stderr >>

\* lines 197-201: open and readlines, OSError exits 0
ReadFile ==
  /\ pc = "read"
  /\ IF disk.readable
       THEN /\ lines' = disk.content
            /\ pc' = "function_size"
            /\ UNCHANGED exit_code
       ELSE Exit(0) /\ UNCHANGED lines
  /\ UNCHANGED << cdp, block, protect, fault, data, disk, violations, stderr >>

\* check_function_size empties the list it was handed
RunFunctionSize_Consumes ==
  /\ pc = "function_size"
  /\ fault # pc
  /\ violations' = violations \o check_function_size(lines)
  /\ lines' = <<>>
  /\ pc' = "nesting_depth"
  /\ UNCHANGED << cdp, block, protect, fault, data, disk, stderr, exit_code >>

\* the function-size violations printed as soon as they are found
RunFunctionSize_Prints ==
  /\ pc = "function_size"
  /\ fault # pc
  /\ violations' = violations \o check_function_size(lines)
  /\ stderr' = stderr \o check_function_size(lines)
  /\ pc' = "nesting_depth"
  /\ UNCHANGED << cdp, block, protect, fault, data, disk, lines, exit_code >>

\* line 204
RunFunctionSize ==
  /\ pc = "function_size"
  /\ fault # pc
  /\ violations' = violations \o check_function_size(lines)
  /\ pc' = "nesting_depth"
  /\ UNCHANGED << cdp, block, protect, fault, data, disk, lines, stderr, exit_code >>

\* line 205
RunNestingDepth ==
  /\ pc = "nesting_depth"
  /\ fault # pc
  /\ violations' = violations \o check_nesting_depth(lines)
  /\ pc' = "file_size"
  /\ UNCHANGED << cdp, block, protect, fault, data, disk, lines, stderr, exit_code >>

\* line 206
RunFileSize ==
  /\ pc = "file_size"
  /\ fault # pc
  /\ violations' = violations \o check_file_size(lines)
  /\ pc' = "commented_blocks"
  /\ UNCHANGED << cdp, block, protect, fault, data, disk, lines, stderr, exit_code >>

\* the comment-run violations put in front of the list
RunCommentedBlocks_InFront ==
  /\ pc = "commented_blocks"
  /\ fault # pc
  /\ violations' = check_commented_blocks(lines) \o violations
  /\ pc' = "report"
  /\ UNCHANGED << cdp, block, protect, fault, data, disk, lines, stderr, exit_code >>

\* a comment-run violation dropped when its first line is already cited
RunCommentedBlocks_Dedup ==
  /\ pc = "commented_blocks"
  /\ fault # pc
  /\ LET Fresh(v) == \A k \in 1..Len(violations) : violations[k][2] # v[2]
     IN  violations' = violations \o SelectSeq(check_commented_blocks(lines), Fresh)
  /\ pc' = "report"
  /\ UNCHANGED << cdp, block, protect, fault, data, disk, lines, stderr, exit_code >>

\* line 207
RunCommentedBlocks ==
  /\ pc = "commented_blocks"
  /\ fault # pc
  /\ violations' = violations \o check_commented_blocks(lines)
  /\ pc' = "report"
  /\ UNCHANGED << cdp, block, protect, fault, data, disk, lines, stderr, exit_code >>

\* the violations printed, the status left at 0
Report_ExitsZero ==
  /\ pc = "report"
  /\ IF violations # <<>>
       THEN stderr' = stderr
                   \o << << "Code quality issues in ", basename(data.file_path), ":" >> >>
                   \o violations
       ELSE UNCHANGED stderr
  /\ Exit(0)
  /\ UNCHANGED << cdp, block, protect, fault, data, disk, lines, violations >>

\* lines 209-218
Report ==
  /\ pc = "report"
  /\ IF violations # <<>>
       THEN /\ stderr' = stderr
                   \o << << "Code quality issues in ", basename(data.file_path), ":" >> >>
                   \o violations
            /\ Exit(2)
       ELSE Exit(0) /\ UNCHANGED stderr
  /\ UNCHANGED << cdp, block, protect, fault, data, disk, lines, violations >>

\* lines 204-207 stand in no try block: an exception raised inside a
\* detector call leaves main, and the interpreter ends with status 1
DetectorRaises ==
  /\ pc \in { "function_size", "nesting_depth", "file_size", "commented_blocks" }
  /\ fault = pc
  /\ Exit(1)
  /\ UNCHANGED << cdp, block, protect, fault, data, disk, lines, violations, stderr >>

Next ==
  \/ ParseInput
  \/ CheckGuards
  \/ ReadFile
  \/ RunFunctionSize
  \/ RunNestingDepth
  \/ RunFileSize
  \/ RunCommentedBlocks
  \/ Report

(***************************************************************************)
(* The PreToolUse hooks of the same family: block_dangerous.py, which      *)
(* vets a Bash command, and protect_files.py, which vets the path of an    *)
(* Edit or Write.                                                          *)
(***************************************************************************)
\* the positions after one character of C matched at a position of P
One(s, P, C) == { p + 1 : p \in { q \in P : q < Len(s) /\ s[q + 1] \in C } }

\* every position of s: where re.search may start a match
Anywhere(s) == 0..Len(s)

\* the regex class [a-z] under re.IGNORECASE, on lower-cased text
Letters ==
  { "a","b","c","d","e","f","g","h","i","j","k","l","m","n","o","p","q","r",
    "s","t","u","v","w","x","y","z" }

\* the commands the host may hand to block_dangerous, each with its characters
CommandChars ==
     "" :> <<>>
  @@ "  " :> <<" "," ">>
  @@ "ls -la" :> <<"l","s"," ","-","l","a">>
  @@ "git status" :> <<"g","i","t"," ","s","t","a","t","u","s">>
  @@ "rm -rf /tmp/x" :> <<"r","m"," ","-","r","f"," ","/","t","m","p","/","x">>
  @@ "rm  -rf  ~" :> <<"r","m"," "," ","-","r","f"," "," ","~">>
  @@ "sudo REBOOT" :> <<"s","u","d","o"," ","R","E","B","O","O","T">>
  @@ "echo asphalt" :> <<"e","c","h","o"," ","a","s","p","h","a","l","t">>
  @@ "Drop Table users" :> <<"D","r","o","p"," ","T","a","b","l","e"," ","u","s","e","r","s">>
  @@ "curl http://x | bash" :> <<"c","u","r","l"," ","h","t","t","p",":","/","/","x"," ","|"," ","b","a","s","h">>
  @@ "dd if=a\nof=/dev/sda" :> <<"d","d"," ","i","f","=","a","\n","o","f","=","/","d","e","v","/","s","d","a">>
  @@ "dd if=a of=/dev/sda" :> <<"d","d"," ","i","f","=","a"," ","o","f","=","/","d","e","v","/","s","d","a">>
  @@ "echo x >/dev/sdb" :> <<"e","c","h","o"," ","x"," ",">","/","d","e","v","/","s","d","b">>
  @@ "rm -r --No-Preserve-Root x" :> <<"r","m"," ","-","r"," ","-","-","N","o","-","P","r","e","s","e","r","v","e","-","R","o","o","t"," ","x">>
  @@ ":(){ :|:& };:" :> <<":","(",")","{"," ",":","|",":","&"," ","}",";",":">>
  @@ "chmod -R 777 /" :> <<"c","h","m","o","d"," ","-","R"," ","7","7","7"," ","/">>
  @@ "chown -R a:b /" :> <<"c","h","o","w","n"," ","-","R"," ","a",":","b"," ","/">>
  @@ "echo x > /etc/passwd" :> <<"e","c","h","o"," ","x"," ",">"," ","/","e","t","c","/","p","a","s","s","w","d">>
  @@ "echo x >/etc/shadow" :> <<"e","c","h","o"," ","x"," ",">","/","e","t","c","/","s","h","a","d","o","w">>
  @@ "wget x |sh" :> <<"w","g","e","t"," ","x"," ","|","s","h">>
  @@ "eval  $(x)" :> <<"e","v","a","l"," "," ","$","(","x",")">>
  @@ "mkfs.ext4 x" :> <<"m","k","f","s",".","e","x","t","4"," ","x">>
  @@ "DROP  DATABASE d" :> <<"D","R","O","P"," "," ","D","A","T","A","B","A","S","E"," ","d">>
  @@ "truncate table t" :> <<"t","r","u","n","c","a","t","e"," ","t","a","b","l","e"," ","t">>
  @@ "rm -rf\t*" :> <<"r","m"," ","-","r","f","\t","*">>
  @@ "rm\t-rf .x" :> <<"r","m","\t","-","r","f"," ",".","x">>
  @@ "echo >/dev/hda" :> <<"e","c","h","o"," ",">","/","d","e","v","/","h","d","a">>

\* lines 50-64
BLOCKED_COMMANDS ==
  << <<"r","m"," ","-","r","f"," ","/">>,
     <<"r","m"," ","-","r","f"," ","/","*">>,
     <<"r","m"," ","-","r","f"," ","~">>,
     <<"r","m"," ","-","r","f"," ","~","/","*">>,
     <<"r","m"," ","-","r","f"," ",".">>,
     <<"r","m"," ","-","r","f"," ",".",".">>,
     <<"r","m"," ","-","r","f"," ","$","H","O","M","E">>,
     <<"s","h","u","t","d","o","w","n">>,
     <<"r","e","b","o","o","t">>,
     <<"h","a","l","t">>,
     <<"p","o","w","e","r","o","f","f">>,
     <<"i","n","i","t"," ","0">>,
     <<"i","n","i","t"," ","6">> >>

\* lines 27-47: the source text of each pattern
DANGEROUS_PATTERNS ==
  << "rm\\s+-rf\\s+/",
     "rm\\s+-rf\\s+~",
     "rm\\s+-rf\\s+\\*",
     "rm\\s+-rf\\s+\\.",
     ":\\(\\)\\s*\\{\\s*:\\|:&\\s*\\}\\s*;",
     ">(\\/dev\\/sd[a-z]|\\/dev\\/hd[a-z])",
     "dd\\s+if=.*of=/dev/",
     "mkfs\\.",
     "chmod\\s+-R\\s+777\\s+/",
     "chown\\s+-R.*:.*\\s+/",
     ">\\s*/etc/passwd",
     ">\\s*/etc/shadow",
     "curl.*\\|\\s*(ba)?sh",
     "wget.*\\|\\s*(ba)?sh",
     "eval\\s+.*\\$\\(",
     "DROP\\s+DATABASE",
     "DROP\\s+TABLE",
     "TRUNCATE\\s+TABLE",
     "--no-preserve-root" >>

Commands == DOMAIN CommandChars

\* the regex `.` on lower-cased commands: every character but the newline
Dot ==
  UNION { { LowerChar(CommandChars[c][k]) : k \in 1..Len(CommandChars[c]) } :
          c \in Commands } \ { "\n" }

\* the literal a pattern spells, as characters
rm == <<"r","m">>
rf == <<"-","r","f">>

\* `rm\s+-rf\s+`, the head of the first four patterns
RmRfEnds(s) ==
  Some(s, Lit(s, Some(s, Lit(s, Anywhere(s), rm), Whitespace), rf), Whitespace)

\* `curl.*\|\s*(ba)?sh` and `wget.*\|\s*(ba)?sh`
PipeToShellEnds(s, tool) ==
  AnyLit(s, Many(s, Lit(s, Many(s, Lit(s, Anywhere(s), tool), Dot), <<"|">>),
                 Whitespace),
         { <<"s","h">>, <<"b","a","s","h">> })

\* `A\s+B`
TwoWordsEnds(s, a, b) == Lit(s, Some(s, Lit(s, Anywhere(s), a), Whitespace), b)

\* `>\s*F`
RedirectEnds(s, f) == Lit(s, Many(s, Lit(s, Anywhere(s), <<">">>), Whitespace), f)

\* the positions where a match of DANGEROUS_PATTERNS[i] can end in s, the
\* lower-cased command: re.IGNORECASE is the pattern's literals lower-cased
\* and matched against lower-cased text
PatternEnds(i, s) ==
  CASE i = 1 -> Lit(s, RmRfEnds(s), <<"/">>)
    [] i = 2 -> Lit(s, RmRfEnds(s), <<"~">>)
    [] i = 3 -> Lit(s, RmRfEnds(s), <<"*">>)
    [] i = 4 -> Lit(s, RmRfEnds(s), <<".">>)
    [] i = 5 ->
         LET a == Many(s, Lit(s, Anywhere(s), <<":","(",")">>), Whitespace)
             b == Many(s, Lit(s, a, <<"{">>), Whitespace)
             c == Many(s, Lit(s, b, <<":","|",":","&">>), Whitespace)
             d == Many(s, Lit(s, c, <<"}">>), Whitespace)
         IN  Lit(s, d, <<";">>)
    [] i = 6 ->
         One(s, AnyLit(s, Lit(s, Anywhere(s), <<">">>),
                       { <<"/","d","e","v","/","s","d">>,
                         <<"/","d","e","v","/","h","d">> }),
             Letters)
    [] i = 7 ->
         Lit(s, Many(s, Lit(s, Some(s, Lit(s, Anywhere(s), <<"d","d">>), Whitespace),
                            <<"i","f","=">>),
                     Dot),
             <<"o","f","=","/","d","e","v","/">>)
    [] i = 8 -> Lit(s, Anywhere(s), <<"m","k","f","s",".">>)
    [] i = 9 ->
         LET a == TwoWordsEnds(s, <<"c","h","m","o","d">>, <<"-","r">>)
             b == Lit(s, Some(s, a, Whitespace), <<"7","7","7">>)
         IN  Lit(s, Some(s, b, Whitespace), <<"/">>)
    [] i = 10 ->
         LET a == TwoWordsEnds(s, <<"c","h","o","w","n">>, <<"-","r">>)
             b == Many(s, Lit(s, Many(s, a, Dot), <<":">>), Dot)
         IN  Lit(s, Some(s, b, Whitespace), <<"/">>)
    [] i = 11 -> RedirectEnds(s, <<"/","e","t","c","/","p","a","s","s","w","d">>)
    [] i = 12 -> RedirectEnds(s, <<"/","e","t","c","/","s","h","a","d","o","w">>)
    [] i = 13 -> PipeToShellEnds(s, <<"c","u","r","l">>)
    [] i = 14 -> PipeToShellEnds(s, <<"w","g","e","t">>)
    [] i = 15 ->
         Lit(s, Many(s, Some(s, Lit(s, Anywhere(s), <<"e","v","a","l">>), Whitespace),
                     Dot),
             <<"$","(">>)
    [] i = 16 -> TwoWordsEnds(s, <<"d","r","o","p">>, <<"d","a","t","a","b","a","s","e">>)
    [] i = 17 -> TwoWordsEnds(s, <<"d","r","o","p">>, <<"t","a","b","l","e">>)
    [] i = 18 -> TwoWordsEnds(s, <<"t","r","u","n","c","a","t","e">>, <<"t","a","b","l","e">>)
    [] i = 19 -> Lit(s, Anywhere(s),
                     <<"-","-","n","o","-","p","r","e","s","e","r","v","e","-","r","o","o","t">>)

\* the least index of a non-empty set of list indexes: the entry a `for`
\* loop over the list reaches first
First(S) == CHOOSE k \in S : \A j \in S : k <= j

\* the patterns matched with the case of the command as it is
is_dangerous_CaseSensitive(command) ==
  LET s == CommandChars[command]
      command_lower == strip(lower(s))
      blocked == { k \in 1..Len(BLOCKED_COMMANDS) :
                     Contains(command_lower, lower(BLOCKED_COMMANDS[k])) }
      matched == { i \in 1..Len(DANGEROUS_PATTERNS) : PatternEnds(i, s) # {} }
  IN  IF blocked # {}
        THEN [dangerous |-> TRUE,
              reason |-> << "Blocked command: ", Join(BLOCKED_COMMANDS[First(blocked)]) >>]
      ELSE IF matched # {}
        THEN [dangerous |-> TRUE,
              reason |-> << "Matched dangerous pattern: ",
                            DANGEROUS_PATTERNS[First(matched)] >>]
      ELSE [dangerous |-> FALSE, reason |-> <<>>]

\* lines 67-81: the verdict and its reason
is_dangerous(command) ==
  LET s == CommandChars[command]
      command_lower == strip(lower(s))
      blocked == { k \in 1..Len(BLOCKED_COMMANDS) :
                     Contains(command_lower, lower(BLOCKED_COMMANDS[k])) }
      matched == { i \in 1..Len(DANGEROUS_PATTERNS) : PatternEnds(i, lower(s)) # {} }
  IN  IF blocked # {}
        THEN [dangerous |-> TRUE,
              reason |-> << "Blocked command: ", Join(BLOCKED_COMMANDS[First(blocked)]) >>]
      ELSE IF matched # {}
        THEN [dangerous |-> TRUE,
              reason |-> << "Matched dangerous pattern: ",
                            DANGEROUS_PATTERNS[First(matched)] >>]
      ELSE [dangerous |-> FALSE, reason |-> <<>>]

\* the paths the host may hand to protect_files, each with its characters
ProtectedPathChars ==
     "" :> <<>>
  @@ "src/app.py" :> <<"s","r","c","/","a","p","p",".","p","y">>
  @@ ".env" :> <<".","e","n","v">>
  @@ "config/.ENV.local" :> <<"c","o","n","f","i","g","/",".","E","N","V",".","l","o","c","a","l">>
  @@ "home/.npmrc" :> <<"h","o","m","e","/",".","n","p","m","r","c">>
  @@ "docs/tokenizer.md" :> <<"d","o","c","s","/","t","o","k","e","n","i","z","e","r",".","m","d">>
  @@ "../notes.txt" :> <<".",".","/","n","o","t","e","s",".","t","x","t">>
  @@ "src/Secrets.JSON" :> <<"s","r","c","/","S","e","c","r","e","t","s",".","J","S","O","N">>
  @@ "keys/server.PEM" :> <<"k","e","y","s","/","s","e","r","v","e","r",".","P","E","M">>
  @@ "README.md" :> <<"R","E","A","D","M","E",".","m","d">>

\* lines 26-52
PROTECTED_PATTERNS ==
  << <<".","e","n","v">>,
     <<".","e","n","v",".","l","o","c","a","l">>,
     <<".","e","n","v",".","p","r","o","d","u","c","t","i","o","n">>,
     <<".","e","n","v",".","d","e","v","e","l","o","p","m","e","n","t">>,
     <<"c","r","e","d","e","n","t","i","a","l","s">>,
     <<"s","e","c","r","e","t","s">>,
     <<".","g","i","t","/">>,
     <<".","s","s","h","/">>,
     <<"i","d","_","r","s","a">>,
     <<"i","d","_","e","d","2","5","5","1","9">>,
     <<".","p","e","m">>,
     <<".","k","e","y">>,
     <<".","p","1","2">>,
     <<".","p","f","x">>,
     <<"p","a","s","s","w","o","r","d">>,
     <<"t","o","k","e","n">>,
     <<"a","p","i","_","k","e","y">>,
     <<"a","p","i","k","e","y">>,
     <<"s","e","c","r","e","t","_","k","e","y">>,
     <<"p","r","i","v","a","t","e","_","k","e","y">>,
     <<".","h","t","p","a","s","s","w","d">>,
     <<"s","h","a","d","o","w">>,
     <<"p","a","s","s","w","d">>,
     <<"k","n","o","w","n","_","h","o","s","t","s">>,
     <<"a","u","t","h","o","r","i","z","e","d","_","k","e","y","s">> >>

\* lines 55-69
PROTECTED_FILES ==
  << <<".","e","n","v">>,
     <<".","e","n","v",".","l","o","c","a","l">>,
     <<".","e","n","v",".","p","r","o","d","u","c","t","i","o","n">>,
     <<".","e","n","v",".","d","e","v","e","l","o","p","m","e","n","t">>,
     <<".","e","n","v",".","s","t","a","g","i","n","g">>,
     <<".","e","n","v",".","t","e","s","t">>,
     <<"c","r","e","d","e","n","t","i","a","l","s",".","j","s","o","n">>,
     <<"s","e","c","r","e","t","s",".","j","s","o","n">>,
     <<"s","e","r","v","i","c","e","-","a","c","c","o","u","n","t",".","j","s","o","n">>,
     <<"f","i","r","e","b","a","s","e","-","a","d","m","i","n","s","d","k",".","j","s","o","n">>,
     <<".","n","p","m","r","c">>,
     <<".","p","y","p","i","r","c">>,
     <<".","n","e","t","r","c">> >>

ProtectedPaths == DOMAIN ProtectedPathChars

\* os.path.basename on characters: what follows the last "/"
BasenameChars(s) ==
  LET slashes == { k \in 1..Len(s) : s[k] = "/" }
  IN  IF slashes = {} THEN s
      ELSE SubSeq(s, (CHOOSE k \in slashes : \A j \in slashes : j <= k) + 1, Len(s))

\* lines 72-95: the verdict and its reason
is_protected(file_path) ==
  LET s == ProtectedPathChars[file_path]
      normalized == lower(s)
      base == BasenameChars(normalized)
      exact == { k \in 1..Len(PROTECTED_FILES) : base = lower(PROTECTED_FILES[k]) }
      matched == { k \in 1..Len(PROTECTED_PATTERNS) :
                     Contains(normalized, lower(PROTECTED_PATTERNS[k])) }
  IN  IF s = <<>>
        THEN [protected |-> FALSE, reason |-> <<>>]
      ELSE IF exact # {}
        THEN [protected |-> TRUE,
              reason |-> << "Protected file: ", Join(PROTECTED_FILES[First(exact)]) >>]
      ELSE IF matched # {}
        THEN [protected |-> TRUE,
              reason |-> << "Matches protected pattern: ",
                            Join(PROTECTED_PATTERNS[First(matched)]) >>]
      ELSE IF Contains(s, << ".", "." >>)
        THEN [protected |-> TRUE, reason |-> << "Path traversal detected" >>]
      ELSE [protected |-> FALSE, reason |-> <<>>]

\* one run of a hook that has read data on stdin and not yet acted
HookStart(d) == [data |-> d, pc |-> "start", stderr |-> <<>>, exit_code |-> NotExited]

\* print(..., file=sys.stderr) of what is printed, if anything, then sys.exit
HookExit(h, printed, code) ==
  [h EXCEPT !.pc = "exited", !.stderr = printed, !.exit_code = code]

\* what json.load and the two .get calls make of stdin: text that is no
\* JSON, the JSON list `[]`, which has no .get, or an object whose
\* tool_input holds the command (the default '' when it holds none)
BlockInputs ==
  { [json |-> j, command |-> ""] : j \in { "invalid", "list" } }
    \cup { [json |-> "object", command |-> c] : c \in Commands }

\* the except clauses of both hooks: lines 101-106 of block_dangerous.py
HookError(h) ==
  IF h.data.json = "invalid"
    THEN HookExit(h, << << "Hook error: Invalid JSON input" >> >>, 1)
    ELSE HookExit(h, << << "Hook error: ", "'list' object has no attribute 'get'" >> >>, 1)

\* a dangerous command reported and let through with the error status
BlockDangerousMain_ExitsOne ==
  /\ block.pc = "start"
  /\ block' =
       IF block.data.json # "object" THEN HookError(block)
       ELSE IF block.data.command = "" THEN HookExit(block, <<>>, 0)
       ELSE IF is_dangerous(block.data.command).dangerous
         THEN HookExit(block,
                       << << "BLOCKED: " >> \o is_dangerous(block.data.command).reason
                            \o << "\nCommand: ", block.data.command >> >>,
                       1)
       ELSE HookExit(block, <<>>, 0)
  /\ UNCHANGED << cdp, protect, fault, data, disk, pc, lines, violations, stderr, exit_code >>

\* block_dangerous.py, lines 84-106
BlockDangerousMain ==
  /\ block.pc = "start"
  /\ block' =
       IF block.data.json # "object" THEN HookError(block)
       ELSE IF block.data.command = "" THEN HookExit(block, <<>>, 0)
       ELSE IF is_dangerous(block.data.command).dangerous
         THEN HookExit(block,
                       << << "BLOCKED: " >> \o is_dangerous(block.data.command).reason
                            \o << "\nCommand: ", block.data.command >> >>,
                       2)
       ELSE HookExit(block, <<>>, 0)
  /\ UNCHANGED << cdp, protect, fault, data, disk, pc, lines, violations, stderr, exit_code >>

\* stdin of protect_files.py, as BlockInputs with the file_path of tool_input
ProtectInputs ==
  { [json |-> j, file_path |-> ""] : j \in { "invalid", "list" } }
    \cup { [json |-> "object", file_path |-> p] : p \in ProtectedPaths }

\* protect_files.py, lines 98-120
ProtectFilesMain ==
  /\ protect.pc = "start"
  /\ protect' =
       IF protect.data.json # "object" THEN HookError(protect)
       ELSE IF protect.data.file_path = "" THEN HookExit(protect, <<>>, 0)
       ELSE IF is_protected(protect.data.file_path).protected
         THEN HookExit(protect,
                       << << "BLOCKED: " >> \o is_protected(protect.data.file_path).reason
                            \o << "\nFile: ", protect.data.file_path >> >>,
                       2)
       ELSE HookExit(protect, <<>>, 0)
  /\ UNCHANGED << cdp, block, fault, data, disk, pc, lines, violations, stderr, exit_code >>

\* the three hooks, each run by the host as a process of its own
NextHooks == Next \/ BlockDangerousMain \/ ProtectFilesMain

(***************************************************************************)
(* cdp_connect.py: main() up to the targets it finds, and poll_cdp.  Time   *)
(* is counted in ticks of half a second, the length of the sleep between   *)
(* two attempts.                                                           *)
(***************************************************************************)
\* time.sleep(0.5), in ticks
SleepTicks == 1

\* urlopen(url, timeout=2): the ticks after which an attempt has given up
FetchTimeoutTicks == 4

\* --timeout, in seconds, is at most MaxTimeout
MaxTimeout == 2

\* a sleep may last up to MaxOversleep ticks longer than asked
MaxOversleep == 1

\* the target lists the endpoint may serve, each target by its type
TargetLists == { <<>>, << "page" >>, << "other", "page" >> }

\* one run of cdp_connect.py before main has done anything
CdpStart(timeout, now) ==
  [pc |-> "main", port |-> 9222, timeout |-> timeout, now |-> now, start |-> 0,
   last_error |-> "None", targets |-> <<>>, fetched |-> <<>>, log |-> <<>>,
   stdout |-> <<>>, exit_code |-> NotExited]

\* lines 106-108 and 34-36: main announces the connection and calls
\* poll_cdp, which notes the time
CdpConnect ==
  /\ cdp.pc = "main"
  /\ cdp' = [cdp EXCEPT
               !.stdout = Append(@, << "Connecting to CDP on port ",
                                       ToString(cdp.port), "..." >>),
               !.start = cdp.now,
               !.last_error = "None",
               !.pc = "while"]
  /\ UNCHANGED << block, protect, fault, data, disk, pc, lines, violations, stderr,
                  exit_code >>

\* the seconds of --timeout in ticks
TimeoutTicks(timeout) == 2 * timeout

\* line 37, and lines 45-47 when the condition fails
PollWhile ==
  /\ cdp.pc = "while"
  /\ cdp' = IF cdp.now - cdp.start < TimeoutTicks(cdp.timeout)
              THEN [cdp EXCEPT !.pc = "try"]
              ELSE [cdp EXCEPT !.pc = "raised"]
  /\ UNCHANGED << block, protect, fault, data, disk, pc, lines, violations, stderr,
                  exit_code >>

\* a fetch that succeeds is followed by the wait and another attempt
PollFetchOk_Retries ==
  /\ cdp.pc = "try"
  /\ \E dt \in 0..FetchTimeoutTicks, ts \in TargetLists :
       cdp' = [cdp EXCEPT !.now = @ + dt,
                          !.fetched = Append(@, ts),
                          !.log = Append(@, "ok"),
                          !.pc = "sleep"]
  /\ UNCHANGED << block, protect, fault, data, disk, pc, lines, violations, stderr,
                  exit_code >>

\* lines 38-40: the endpoint answers with a list of targets, which poll_cdp
\* returns
PollFetchOk ==
  /\ cdp.pc = "try"
  /\ \E dt \in 0..FetchTimeoutTicks, ts \in TargetLists :
       cdp' = [cdp EXCEPT !.now = @ + dt,
                          !.fetched = Append(@, ts),
                          !.log = Append(@, "ok"),
                          !.targets = ts,
                          !.pc = "returned"]
  /\ UNCHANGED << block, protect, fault, data, disk, pc, lines, violations, stderr,
                  exit_code >>

\* lines 41-43: urlopen or read raises URLError, ConnectionRefusedError or
\* another OSError
PollFetchFails ==
  /\ cdp.pc = "try"
  /\ \E dt \in 0..FetchTimeoutTicks :
       cdp' = [cdp EXCEPT !.now = @ + dt,
                          !.last_error = "URLError",
                          !.log = Append(@, "fail"),
                          !.pc = "sleep"]
  /\ UNCHANGED << block, protect, fault, data, disk, pc, lines, violations, stderr,
                  exit_code >>

\* line 40: the body read is no JSON; json.loads raises a ValueError, which
\* neither poll_cdp nor main catches, and the interpreter ends with status 1
PollFetchGarbled ==
  /\ cdp.pc = "try"
  /\ \E dt \in 0..FetchTimeoutTicks :
       cdp' = [cdp EXCEPT !.now = @ + dt,
                          !.log = Append(@, "garbled"),
                          !.exit_code = 1,
                          !.pc = "crashed"]
  /\ UNCHANGED << block, protect, fault, data, disk, pc, lines, violations, stderr,
                  exit_code >>

\* line 44
PollSleep ==
  /\ cdp.pc = "sleep"
  /\ \E over \in 0..MaxOversleep :
       cdp' = [cdp EXCEPT !.now = @ + SleepTicks + over,
                          !.log = Append(@, "sleep"),
                          !.pc = "while"]
  /\ UNCHANGED << block, protect, fault, data, disk, pc, lines, violations, stderr,
                  exit_code >>

\* lines 109-114: main reports the RuntimeError and exits
MainExcept ==
  /\ cdp.pc = "raised"
  /\ cdp' = [cdp EXCEPT
               !.stdout = @ \o << << "Error: ", "CDP not reachable on port ",
                                     ToString(cdp.port), " after ",
                                     ToString(cdp.timeout), "s: ", cdp.last_error >>,
                                  << >>,
                                  << "Make sure Electron is running with --remote-debugging-port=9222" >>,
                                  << "Example: electron . --remote-debugging-port=9222" >> >>,
               !.exit_code = 1,
               !.pc = "exited"]
  /\ UNCHANGED << block, protect, fault, data, disk, pc, lines, violations, stderr,
                  exit_code >>

\* line 116: main goes on with the targets poll_cdp returned
MainFound ==
  /\ cdp.pc = "returned"
  /\ cdp' = [cdp EXCEPT
               !.stdout = Append(@, << "Found ", ToString(Len(cdp.targets)),
                                       " CDP target(s):" >>),
               !.pc = "found"]
  /\ UNCHANGED << block, protect, fault, data, disk, pc, lines, violations, stderr,
                  exit_code >>

NextCdp ==
  \/ CdpConnect
  \/ PollWhile
  \/ PollFetchOk
  \/ PollFetchFails
  \/ PollFetchGarbled
  \/ PollSleep
  \/ MainExcept
  \/ MainFound

(***************************************************************************)
(* Inputs.  A file is a concatenation of at most MaxChunks chunks, a chunk *)
(* being one head line followed by n copies of a fill line.                *)
(***************************************************************************)
MaxChunks == 2

Chunk(head, fill, n) == << head >> \o [k \in 1..n |-> fill]

ChunksOf(heads, fills, lens) ==
  { Chunk(h, f, n) : h \in heads, f \in fills, n \in lens }

RECURSIVE FilesOf(_, _)
FilesOf(chunks, n) ==
  IF n = 0 THEN { <<>> }
  ELSE LET shorter == FilesOf(chunks, n - 1)
       IN  shorter \cup { f \o c : f \in shorter, c \in chunks }

\* an Edit of a source file that exists and can be read
GoodData == [json_ok |-> TRUE, tool_name |-> "Edit", file_path |-> "src/app.py"]

SmallFile == << "def foo():\n", "    x = 1\n" >>

\* the inputs that end the hook before it scans, or differ from GoodData
\* only in the tool and the path
OtherRuns ==
  LET d(ok, t, p) == [json_ok |-> ok, tool_name |-> t, file_path |-> p]
      f(isf, rd) == [isfile |-> isf, readable |-> rd, content |-> SmallFile]
  IN  ({ d(FALSE, "", "") } \X { f(TRUE, TRUE) })
      \cup ({ d(TRUE, t, p) : t \in {"Edit", "Write", "Bash", ""}, p \in Paths }
              \X { f(TRUE, TRUE), f(TRUE, FALSE), f(FALSE, FALSE) })

\* the other programs are not run: the two PreToolUse hooks wait with an
\* empty tool_input, cdp_connect.py at the entry of main
HooksIdle ==
  /\ cdp = CdpStart(0, 0)
  /\ block = HookStart([json |-> "object", command |-> ""])
  /\ protect = HookStart([json |-> "object", file_path |-> ""])

InitOn(files) ==
  /\ HooksIdle
  /\ fault = "none"
  /\ pc = "parse"
  /\ lines = <<>>
  /\ violations = <<>>
  /\ stderr = <<>>
  /\ exit_code = NotExited
  /\ \/ \E run \in OtherRuns : data = run[1] /\ disk = run[2]
     \/ /\ data = GoodData
        /\ disk \in { [isfile |-> TRUE, readable |-> TRUE, content |-> c] : c \in files }

\* files for the report as a whole: long functions, deep lines, long files
\* and long comment runs together
MixedFiles ==
  FilesOf(ChunksOf({ "def foo():\n", "\t\t\t\t\tx\n", "# import foo\n",
                     "\t\t\t\t\t# import foo\n", "<U+FFFD><U+FFFD>\n" },
                   { "# import foo\n" },
                   { 0, MAX_COMMENTED_BLOCK + 1, MAX_FILE_LINES }),
          MaxChunks)

Init == InitOn(MixedFiles)

Spec == Init /\ [][Next]_vars

(***************************************************************************)
(* One family of files for each detector, with the lengths at which its    *)
(* threshold decides, and the specification that runs the hook on them.    *)
(***************************************************************************)
FunctionFiles ==
  FilesOf(ChunksOf({ "def foo():\n", "const x = 5\n", "public run() {\n", "    x = 1\n" },
                   { "    x = 1\n" },
                   { 0, MAX_FUNCTION_LINES - 1, MAX_FUNCTION_LINES,
                     MAX_FUNCTION_LINES + 9 }),
          MaxChunks)

NestingFiles ==
  FilesOf(ChunksOf({ "\t\t\t\t\tx\n", "                x\n", "                    x\n",
                     " \t \tx\n", "\t\t\t\t\t\t\n", "\f                   x\n" },
                   { "    x = 1\n", "\t\t\t\t\tx\n" },
                   { 0, 9 }),
          MaxChunks)

SizeFiles ==
  FilesOf(ChunksOf({ "def foo():\n", "\n", "    x = 1\n" },
                   { "    x = 1\n" },
                   { 0, MAX_FILE_LINES - 2, MAX_FILE_LINES - 1, MAX_FILE_LINES }),
          MaxChunks)

CommentFiles ==
  FilesOf(ChunksOf({ "# import foo\n", "# This is a prose comment\n", "\n",
                     "    // return x;\n" },
                   { "# import foo\n" },
                   { 0, MAX_COMMENTED_BLOCK - 2, MAX_COMMENTED_BLOCK - 1,
                     MAX_COMMENTED_BLOCK + 1 }),
          MaxChunks)

SpecFunction == InitOn(FunctionFiles) /\ [][Next]_vars

SpecNesting == InitOn(NestingFiles) /\ [][Next]_vars

SpecSize == InitOn(SizeFiles) /\ [][Next]_vars

SpecComment == InitOn(CommentFiles) /\ [][Next]_vars

(***************************************************************************)
(* Reading the report.  The kind of a violation is read off the literal    *)
(* pieces of its text.                                                     *)
(***************************************************************************)
IsFunctionViolation(v) == Len(v) = 9 /\ v[1] = "  Line " /\ v[3] = ": function '"

IsNestingViolation(v) == Len(v) = 7 /\ v[1] = "  Line " /\ v[3] = ": nesting depth "

IsFileViolation(v) == Len(v) = 5 /\ v[1] = "  File is "

IsCommentViolation(v) == Len(v) = 7 /\ v[1] = "  Lines "

\* the 0-based indices of the lines that match the start-signature pattern
StartIndices(ls) == { i \in 0..(Len(ls) - 1) : IsFuncStart[ls[i + 1]] }

\* i is the first start after the start s
NextStartAfter(ls, s, i) ==
  /\ s \in StartIndices(ls)
  /\ i \in StartIndices(ls)
  /\ s < i
  /\ \A j \in StartIndices(ls) : ~(s < j /\ j < i)

\* the violations of the report that cite line number n (1-based) as a
\* function start
FunctionViolationsAt(vs, n) ==
  { k \in 1..Len(vs) : IsFunctionViolation(vs[k]) /\ vs[k][2] = ToString(n) }

\* the report right after check_function_size has run
AfterFunctionSize == pc = "nesting_depth"

\* C1: when a start at index i follows the start at index s, the span of s
\* is recorded as [s, i), and a violation citing line s + 1 is reported
\* exactly when i - s > 50; it carries the name found on line s and the
\* length i - s.
C1_SpanClosedByNextStart ==
  AfterFunctionSize =>
    \A s \in StartIndices(lines) : \A i \in StartIndices(lines) :
      NextStartAfter(lines, s, i) =>
        LET at == FunctionViolationsAt(violations, s + 1)
        IN  /\ \E k \in 1..Len(FunctionScan(lines).spans) :
                 FunctionScan(lines).spans[k] =
                   [name |-> NameOf[lines[s + 1]], start_line |-> s, end_line |-> i]
            /\ (at # {}) <=> (i - s > 50)
            /\ Cardinality(at) <= 1
            /\ \A k \in at :
                 violations[k] =
                   << "  Line ", ToString(s + 1), ": function '",
                      NameOf[lines[s + 1]], "' is ", ToString(i - s),
                      " lines (max ", "50", ")" >>

\* a span of 51 lines closed by a later start, and reported
C1_Witness ==
  /\ AfterFunctionSize
  /\ \E s \in StartIndices(lines) : \E i \in StartIndices(lines) :
       /\ NextStartAfter(lines, s, i)
       /\ i - s = 51
       /\ FunctionViolationsAt(violations, s + 1) # {}

\* s is the last start of the file
LastStart(ls, s) ==
  /\ s \in StartIndices(ls)
  /\ \A j \in StartIndices(ls) : j <= s

\* C2: the span of the last start s closes at end-of-file with length
\* len(lines) - s and is reported exactly when that length exceeds 50; a
\* `def ` line followed by 59 other lines gives exactly one violation, for
\* line 1 and 60 lines.
C2_LastSpanClosedAtEof ==
  AfterFunctionSize =>
    /\ \A s \in StartIndices(lines) :
         LastStart(lines, s) =>
           LET at == FunctionViolationsAt(violations, s + 1)
               spans == FunctionScan(lines).spans
           IN  /\ spans # <<>>
               /\ spans[Len(spans)] =
                    [name |-> NameOf[lines[s + 1]], start_line |-> s,
                     end_line |-> Len(lines)]
               /\ (at # {}) <=> (Len(lines) - s > 50)
               /\ Cardinality(at) <= 1
               /\ \A k \in at :
                    violations[k] =
                      << "  Line ", ToString(s + 1), ": function '",
                         NameOf[lines[s + 1]], "' is ", ToString(Len(lines) - s),
                         " lines (max ", "50", ")" >>
    /\ (/\ Len(lines) = 60
        /\ StartIndices(lines) = {0}
        /\ lines[1] = "def foo():\n")
         => violations = << << "  Line ", "1", ": function '", "foo", "' is ",
                               "60", " lines (max ", "50", ")" >> >>

\* the 60-line file with its single `def ` on the first line has been scanned
C2_Witness ==
  /\ AfterFunctionSize
  /\ Len(lines) = 60
  /\ StartIndices(lines) = {0}
  /\ lines[1] = "def foo():\n"
  /\ Len(violations) = 1

\* C3: the spans measured are, in order, one for each line that matches the
\* start pattern: as many spans as starts, each from its start up to the
\* next start or to end-of-file, each non-empty, none overlapping the next.
C3_SpansMatchStarts ==
  AfterFunctionSize =>
    LET spans == FunctionScan(lines).spans
        starts == StartIndices(lines)
    IN  /\ Len(spans) = Cardinality(starts)
        /\ { spans[k].start_line : k \in 1..Len(spans) } = starts
        /\ \A k \in 1..Len(spans) :
             /\ spans[k].start_line < spans[k].end_line
             /\ spans[k].end_line <= Len(lines)
             /\ \A j \in starts : ~(spans[k].start_line < j /\ j < spans[k].end_line)
             /\ IF k < Len(spans)
                  THEN /\ spans[k].end_line = spans[k + 1].start_line
                       /\ spans[k].end_line \in starts
                  ELSE spans[k].end_line = Len(lines)

\* a file with two starts, whose two spans have been measured
C3_Witness ==
  /\ AfterFunctionSize
  /\ Cardinality(StartIndices(lines)) = 2
  /\ Len(FunctionScan(lines).spans) = 2
  /\ FunctionScan(lines).spans[1].end_line < Len(lines)

\* the part of a report that is of one kind
FileViolations(vs) == SelectSeq(vs, IsFileViolation)

NestingViolations(vs) == SelectSeq(vs, IsNestingViolation)

CommentViolations(vs) == SelectSeq(vs, IsCommentViolation)

\* the report right after check_file_size has run
AfterFileSize == pc = "commented_blocks"

\* C4: check_file_size reports exactly one violation, carrying the line
\* count, when the file has more than 500 lines, and nothing otherwise:
\* nothing for 500 lines, one violation saying 501 for 501 lines.
C4_FileTooLongIffOver500 ==
  AfterFileSize =>
    /\ FileViolations(violations) =
         IF Len(lines) > 500
           THEN << << "  File is ", ToString(Len(lines)), " lines (max ", "500", ")" >> >>
           ELSE <<>>
    /\ Len(lines) = 500 => FileViolations(violations) = <<>>
    /\ Len(lines) = 501 =>
         FileViolations(violations) =
           << << "  File is ", "501", " lines (max ", "500", ")" >> >>

\* a file of 501 lines has been measured and reported
C4_Witness ==
  /\ AfterFileSize
  /\ Len(lines) = 501
  /\ Len(FileViolations(violations)) = 1

\* the report right after check_nesting_depth has run
AfterNestingDepth == pc = "file_size"

\* the nesting violations of the report that cite a line of bucket b
NestingViolationsIn(vs, ls, b) ==
  { k \in 1..Len(vs) :
      /\ IsNestingViolation(vs[k])
      /\ \E i \in 0..(Len(ls) - 1) : i \div 10 = b /\ vs[k][2] = ToString(i + 1) }

\* the non-blank lines (0-based) that check_nesting_depth finds too deep
DeepLines(ls) ==
  { i \in 0..(Len(ls) - 1) : ~IsBlank[ls[i + 1]] /\ Depth[ls[i + 1]] > 4 }

\* C5: no 10-line bucket gets more than one nesting violation.
C5_OncePerBucket ==
  AfterNestingDepth =>
    \A b \in 0..(Len(lines) \div 10) :
      Cardinality(NestingViolationsIn(violations, lines, b)) <= 1

\* a bucket whose ten lines are all too deep, reported once
C5_Witness ==
  /\ AfterNestingDepth
  /\ Len(lines) >= 10
  /\ \A i \in 0..9 : i \in DeepLines(lines)
  /\ Cardinality(NestingViolationsIn(violations, lines, 0)) = 1

\* the depth as the claim C6 gives it: the tabs of the leading-whitespace
\* run if it has any, else its space characters divided by 4
TabsOrSpacesDepth(s) ==
  LET prefix == SubSeq(s, 1, LeadingRun(s, Whitespace))
  IN  IF count(prefix, "\t") >= 1
        THEN count(prefix, "\t")
        ELSE count(prefix, " ") \div 4

\* C6: the depth of every non-blank line scanned, and the depth every
\* nesting violation prints, is the number of tabs in the leading-whitespace
\* run if the run has a tab, and else the number of leading space
\* characters divided by 4.
C6_DepthIsTabsOrSpacesOver4 ==
  AfterNestingDepth =>
    /\ \A i \in 0..(Len(lines) - 1) :
         ~IsBlank[lines[i + 1]] =>
           /\ Depth[lines[i + 1]] >= 0
           /\ Depth[lines[i + 1]] = TabsOrSpacesDepth(Chars[lines[i + 1]])
    /\ \A k \in 1..Len(violations) :
         IsNestingViolation(violations[k]) =>
           \E i \in 0..(Len(lines) - 1) :
             /\ violations[k][2] = ToString(i + 1)
             /\ violations[k][4] = ToString(TabsOrSpacesDepth(Chars[lines[i + 1]]))

\* C7: a nesting violation cites only a non-blank line whose depth is above
\* 4; a file with a line indented by 5 tabs gets at least one, and a file
\* whose deepest line is one indented by 16 spaces gets none.
C7_StrictlyDeeperThan4 ==
  AfterNestingDepth =>
    /\ \A k \in 1..Len(violations) :
         IsNestingViolation(violations[k]) =>
           \E i \in DeepLines(lines) :
             /\ violations[k][2] = ToString(i + 1)
             /\ violations[k][4] = ToString(Depth[lines[i + 1]])
             /\ violations[k][6] = "4"
    /\ (\E k \in 1..Len(lines) : lines[k] = "\t\t\t\t\tx\n")
         => NestingViolations(violations) # <<>>
    /\ (/\ \E k \in 1..Len(lines) : lines[k] = "                x\n"
        /\ \A k \in 1..Len(lines) :
             lines[k] \in { "                x\n", "    x = 1\n", " \t \tx\n",
                            "\t\t\t\t\t\t\n" })
         => NestingViolations(violations) = <<>>

\* a file whose deepest line is indented by 16 spaces has been scanned
C7_Witness ==
  /\ AfterNestingDepth
  /\ \E k \in 1..Len(lines) : lines[k] = "                x\n"
  /\ \A k \in 1..Len(lines) : lines[k] \in { "                x\n", "    x = 1\n" }
  /\ Len(lines) >= 10
  /\ violations = <<>>

\* the report right after check_commented_blocks has run
AfterCommentedBlocks == pc = "report"

\* lines a..b (0-based, inclusive) are a maximal run of comment lines that
\* look like code
MaximalRun(ls, a, b) ==
  /\ 0 <= a /\ a <= b /\ b <= Len(ls) - 1
  /\ \A i \in a..b : IsCommentedCode[ls[i + 1]]
  /\ a = 0 \/ ~IsCommentedCode[ls[a]]
  /\ b = Len(ls) - 1 \/ ~IsCommentedCode[ls[b + 2]]

\* the text that reports the run a..b
RunReport(a, b) ==
  << "  Lines ", ToString(a + 1), "-", ToString(b + 1), ": ",
     ToString(b - a + 1), " lines of commented-out code" >>

TwelveThenProse ==
  [k \in 1..12 |-> "# import foo\n"] \o << "# This is a prose comment\n" >>

\* C8: a maximal run is reported, once and with its first line, last line
\* and length, exactly when it has at least 10 lines, whether a line or the
\* end of the file ends it; 12 code-like comment lines and then a prose
\* comment give one violation of 12 lines, and a run of 9 gives none.
C8_RunReportedIffAtLeast10 ==
  AfterCommentedBlocks =>
    /\ \A a \in 0..(Len(lines) - 1) : \A b \in a..(Len(lines) - 1) :
         MaximalRun(lines, a, b) =>
           LET at == { k \in 1..Len(violations) : violations[k] = RunReport(a, b) }
           IN  IF b - a + 1 >= 10 THEN Cardinality(at) = 1 ELSE at = {}
    /\ lines = TwelveThenProse =>
         CommentViolations(violations) =
           << << "  Lines ", "1", "-", "12", ": ", "12",
                 " lines of commented-out code" >> >>
    /\ (Len(lines) = 9 /\ MaximalRun(lines, 0, 8)) =>
         CommentViolations(violations) = <<>>

\* the 12 comment lines and the prose line have been scanned
C8_Witness ==
  /\ AfterCommentedBlocks
  /\ lines = TwelveThenProse
  /\ Len(CommentViolations(violations)) = 1

\* C9: every comment run reported is a maximal run of the file, and the
\* count it reports is end_line - start_line + 1; so runs that a
\* non-qualifying line separates are never reported as one.
C9_ReportedRunsAreMaximal ==
  AfterCommentedBlocks =>
    \A k \in 1..Len(violations) :
      IsCommentViolation(violations[k]) =>
        \E a \in 0..(Len(lines) - 1) : \E b \in a..(Len(lines) - 1) :
          /\ MaximalRun(lines, a, b)
          /\ violations[k] = RunReport(a, b)

\* two runs, a blank line between them, one of them long enough and reported
C9_Witness ==
  /\ AfterCommentedBlocks
  /\ \E a \in 1..(Len(lines) - 2) :
       /\ lines[a + 1] = "\n"
       /\ IsCommentedCode[lines[a]]
       /\ IsCommentedCode[lines[a + 2]]
  /\ Len(CommentViolations(violations)) = 1

\* the detector a violation comes from, in the order main runs them
DetectorRank(v) ==
  CASE IsFunctionViolation(v) -> 1
    [] IsNestingViolation(v) -> 2
    [] IsFileViolation(v) -> 3
    [] IsCommentViolation(v) -> 4
    [] OTHER -> 0

InDetectorOrder(vs) ==
  /\ \A k \in 1..Len(vs) : DetectorRank(vs[k]) \in 1..4
  /\ \A j \in 1..Len(vs) : \A k \in j..Len(vs) :
       DetectorRank(vs[j]) <= DetectorRank(vs[k])

\* C10: at every point of the run the violations gathered so far, and the
\* violations printed after the header, are in detector order: function
\* size, nesting, file size, comment runs.
C10_ReportInDetectorOrder ==
  /\ InDetectorOrder(violations)
  /\ stderr # <<>> =>
       /\ Tail(stderr) = violations
       /\ InDetectorOrder(Tail(stderr))

\* a printed report that holds a violation of each of the four detectors
C10_Witness ==
  /\ pc = "exited"
  /\ exit_code = 2
  /\ { DetectorRank(stderr[k]) : k \in 2..Len(stderr) } = 1..4

(***************************************************************************)
(* The hook when a detector call may fail: any one of the four calls may   *)
(* raise (a MemoryError, say) instead of returning.                        *)
(***************************************************************************)
Detectors == { "function_size", "nesting_depth", "file_size", "commented_blocks" }

InitFault ==
  /\ HooksIdle
  /\ fault \in Detectors \cup { "none" }
  /\ pc = "parse"
  /\ lines = <<>>
  /\ violations = <<>>
  /\ stderr = <<>>
  /\ exit_code = NotExited
  /\ data = GoodData
  /\ disk \in { [isfile |-> TRUE, readable |-> TRUE, content |-> c] : c \in MixedFiles }

NextFault == Next \/ DetectorRaises

SpecFault == InitFault /\ [][NextFault]_vars

\* what the call of detector d returns on the lines ls
ResultOf(d, ls) ==
  CASE d = "function_size" -> check_function_size(ls)
    [] d = "nesting_depth" -> check_nesting_depth(ls)
    [] d = "file_size" -> check_file_size(ls)
    [] d = "commented_blocks" -> check_commented_blocks(ls)

\* C11: when one detector call raises, the run still reports every
\* violation of the other three detectors.
C11_OtherDetectorsStillReported ==
  (pc = "exited" /\ fault # "none") =>
    \A d \in Detectors \ { fault } :
      \A k \in 1..Len(ResultOf(d, lines)) :
        \E j \in 1..Len(stderr) : stderr[j] = ResultOf(d, lines)[k]

\* C13: a run ends with status 2 exactly when some detector returned a
\* violation, which is exactly when main's list is not empty; it then has
\* printed the header and after it one line for each violation; a run that
\* scanned and found nothing has printed nothing and ends with status 0.
C13_ExitTwoIffViolations ==
  pc = "exited" =>
    /\ (exit_code = 2) <=> (\E d \in Detectors : ResultOf(d, lines) # <<>>)
    /\ (exit_code = 2) <=> (violations # <<>>)
    /\ IF violations # <<>>
         THEN /\ Len(stderr) = 1 + Len(violations)
              /\ Len(stderr[1]) = 3
              /\ stderr[1][1] = "Code quality issues in "
              /\ stderr[1][3] = ":"
              /\ \A k \in 1..Len(violations) : stderr[k + 1] = violations[k]
         ELSE stderr = <<>>
    /\ (data.json_ok /\ violations = <<>>) => exit_code = 0

\* a run that printed the header and two violations and ended with status 2
C13_Witness ==
  /\ pc = "exited"
  /\ exit_code = 2
  /\ Len(violations) = 2
  /\ Len(stderr) = 3

\* the file holds bytes that are not text (read as replacement characters)
HasNonText(ls) == \E k \in 1..Len(ls) : Contains(Chars[ls[k]], << "<U+FFFD>" >>)

\* C14 as stated: whatever is wrong with the input (stdin that is no JSON,
\* a path that is no regular file, a file that cannot be read, a file with
\* non-text bytes), the run ends with status 0 and reports nothing.
C14_EveryInputErrorExitsZero ==
  (/\ pc = "exited"
   /\ \/ ~data.json_ok
      \/ ~disk.isfile
      \/ ~disk.readable
      \/ HasNonText(disk.content))
    => (exit_code = 0 /\ stderr = <<>>)

\* C14, amended: a path that is no regular file and a file that cannot be
\* opened or read end the run with status 0 and no report; stdin that is
\* not JSON ends it with status 1 and no report; a file with non-text bytes
\* that is read is scanned like any other and ends with 2 or 0 according to
\* what the detectors return.
C14_FileErrorsExitZero ==
  pc = "exited" =>
    /\ ~data.json_ok => (exit_code = 1 /\ stderr = <<>>)
    /\ (data.json_ok /\ (~disk.isfile \/ ~disk.readable))
         => (exit_code = 0 /\ stderr = <<>>)
    /\ HasNonText(lines) =>
         exit_code = IF \E d \in Detectors : ResultOf(d, lines) # <<>> THEN 2 ELSE 0

\* an Edit of a regular file that cannot be read has ended with status 0
C14_Witness ==
  /\ pc = "exited"
  /\ data = GoodData
  /\ disk.isfile
  /\ ~disk.readable
  /\ exit_code = 0

\* C15: a binding whose right-hand side is not parenthesised, `const x = 5`,
\* is no function start: no span starts on such a line and no span is
\* closed by it.
C15_PlainBindingOpensNoSpan ==
  AfterFunctionSize =>
    \A i \in 0..(Len(lines) - 1) :
      lines[i + 1] = "const x = 5\n" =>
        /\ ~IsFuncStart[lines[i + 1]]
        /\ \A k \in 1..Len(FunctionScan(lines).spans) :
             /\ FunctionScan(lines).spans[k].start_line # i
             /\ FunctionScan(lines).spans[k].end_line # i

\* the four results of one scan, in the order of lines 204-207
AllResults(ls) ==
  check_function_size(ls) \o check_nesting_depth(ls)
    \o check_file_size(ls) \o check_commented_blocks(ls)

\* C16: nothing is deduplicated across detectors: main's list is the four
\* results one after the other, its length is the sum of the four counts,
\* and the report prints each of its entries once, at its own position, even
\* when a nesting violation and a comment-run violation cite the same line.
C16_NoDeduplication ==
  /\ pc = "report" =>
       /\ violations = AllResults(lines)
       /\ Len(violations) = Len(check_function_size(lines))
                              + Len(check_nesting_depth(lines))
                              + Len(check_file_size(lines))
                              + Len(check_commented_blocks(lines))
  /\ (pc = "exited" /\ violations # <<>>) =>
       /\ violations = AllResults(lines)
       /\ Len(stderr) = 1 + Len(AllResults(lines))
       /\ \A k \in 1..Len(violations) : stderr[k + 1] = violations[k]

\* a finished report in which a nesting violation and a comment-run
\* violation cite the same first line, both printed
C16_Witness ==
  /\ pc = "exited"
  /\ \E i \in 1..Len(check_nesting_depth(lines)) :
       \E j \in 1..Len(check_commented_blocks(lines)) :
         /\ check_nesting_depth(lines)[i][2] = check_commented_blocks(lines)[j][2]
         /\ \E a, b \in 2..Len(stderr) :
              /\ a # b
              /\ stderr[a] = check_nesting_depth(lines)[i]
              /\ stderr[b] = check_commented_blocks(lines)[j]

\* the pieces a rendered line ends with when it ends in `(max <threshold>)`
EndsWithMax(v) ==
  /\ Len(v) >= 3
  /\ v[Len(v) - 2] \in { " lines (max ", " (max " }
  /\ v[Len(v) - 1] \in { ToString(MAX_FUNCTION_LINES), ToString(MAX_NESTING_DEPTH),
                         ToString(MAX_FILE_LINES), ToString(MAX_COMMENTED_BLOCK) }
  /\ v[Len(v)] = ")"

\* the lines printed after the header
Printed == { k \in 1..Len(stderr) : k >= 2 }

\* C18 as stated: every printed violation begins with two spaces and
\* `Line <start>` and ends with `(max <threshold>)`.
C18_EveryLineHasStartAndMax ==
  pc = "exited" =>
    \A k \in Printed : stderr[k][1] = "  Line " /\ EndsWithMax(stderr[k])

IsFunctionLine(v) ==
  /\ Len(v) = 9
  /\ v[1] = "  Line " /\ v[3] = ": function '" /\ v[5] = "' is "
  /\ v[7] = " lines (max " /\ v[8] = ToString(MAX_FUNCTION_LINES) /\ v[9] = ")"

IsNestingLine(v) ==
  /\ Len(v) = 7
  /\ v[1] = "  Line " /\ v[3] = ": nesting depth "
  /\ v[5] = " (max " /\ v[6] = ToString(MAX_NESTING_DEPTH) /\ v[7] = ")"

IsFileLine(v) ==
  /\ Len(v) = 5
  /\ v[1] = "  File is " /\ v[2] = ToString(Len(lines))
  /\ v[3] = " lines (max " /\ v[4] = ToString(MAX_FILE_LINES) /\ v[5] = ")"

IsCommentLine(v) ==
  /\ Len(v) = 7
  /\ v[1] = "  Lines " /\ v[3] = "-" /\ v[5] = ": "
  /\ v[7] = " lines of commented-out code"

\* C18: every violation is one line, indented by two spaces, of the form
\* its detector gives it: `  Line <start>: function '<name>' is <n> lines
\* (max 50)`, `  Line <start>: nesting depth <d> (max 4)`, `  File is <n>
\* lines (max 500)` with no line number, or `  Lines <start>-<end>: <n>
\* lines of commented-out code` with no threshold.
C18_FourLineForms ==
  /\ pc \in { "report", "exited" } =>
       /\ \A k \in 1..Len(check_function_size(lines)) :
            IsFunctionLine(check_function_size(lines)[k])
       /\ \A k \in 1..Len(check_nesting_depth(lines)) :
            IsNestingLine(check_nesting_depth(lines)[k])
       /\ \A k \in 1..Len(check_file_size(lines)) :
            IsFileLine(check_file_size(lines)[k])
       /\ \A k \in 1..Len(check_commented_blocks(lines)) :
            /\ IsCommentLine(check_commented_blocks(lines)[k])
            /\ ~EndsWithMax(check_commented_blocks(lines)[k])
  /\ pc = "exited" =>
       \A k \in Printed :
         \/ IsFunctionLine(stderr[k]) \/ IsNestingLine(stderr[k])
         \/ IsFileLine(stderr[k]) \/ IsCommentLine(stderr[k])

\* a finished report that holds a line of each of the four forms
C18_Witness ==
  /\ pc = "exited"
  /\ \E a, b, c, d \in Printed :
       /\ IsFunctionLine(stderr[a]) /\ IsNestingLine(stderr[b])
       /\ IsFileLine(stderr[c]) /\ IsCommentLine(stderr[d])

\* the run has passed the early exits of lines 181-195
PastGuards ==
  pc \in { "read", "function_size", "nesting_depth", "file_size",
           "commented_blocks", "report" }

\* C19: a run whose tool is neither Edit nor Write, or whose path
\* should_skip accepts, ends with status 0 having read no line, run no
\* detector and printed nothing; the read and the detectors are reached only
\* with an Edit or Write of a path should_skip rejects, which of the sample
\* paths are the two that hold no skip or test pattern once lower-cased.
C19_SkipBeforeScan ==
  /\ (pc = "exited" /\ data.json_ok
        /\ (data.tool_name \notin {"Edit", "Write"} \/ should_skip(data.file_path))) =>
       /\ exit_code = 0
       /\ lines = <<>> /\ violations = <<>> /\ stderr = <<>>
  /\ (PastGuards \/ lines # <<>> \/ violations # <<>>) =>
       /\ data.tool_name \in {"Edit", "Write"}
       /\ ~should_skip(data.file_path)
       /\ data.file_path \in { "src/app.py", "lib/Utils.js" }
  /\ (data.json_ok /\ data.file_path \in { "tests/test_app.py", "dist/app.js",
                                          "src/inspector.py" }) =>
       ~PastGuards

\* a finished Edit of a skipped path whose file exists, can be read and is
\* not empty: status 0 and no line read
C19_Witness ==
  /\ pc = "exited"
  /\ data.tool_name = "Edit" /\ should_skip(data.file_path)
  /\ disk.isfile /\ disk.readable /\ disk.content # <<>>
  /\ lines = <<>> /\ exit_code = 0

\* the scan is under way: the file is read and a detector is still to run
MidScan ==
  pc \in { "function_size", "nesting_depth", "file_size", "commented_blocks" }

\* C20: as long as a detector is still to run, nothing is printed and no
\* exit status is set; a detector's step changes the violation list and the
\* position only; and no step of the hook changes the file or the hook's
\* input. A scan abandoned at any point leaves stderr and the files as they
\* were before it began.
C20_NoEffectBeforeReport ==
  /\ [](MidScan => (stderr = <<>> /\ exit_code = NotExited))
  /\ [][MidScan => UNCHANGED << stderr, exit_code, lines, disk, data >>]_vars
  /\ [][UNCHANGED << disk, data >>]_vars
  /\ [][stderr' # stderr => (pc = "report" /\ pc' = "exited")]_vars

\* a scan that has gathered violations with one detector still to run, and
\* has printed nothing
C20_Witness ==
  /\ pc = "commented_blocks"
  /\ violations # <<>>
  /\ stderr = <<>> /\ exit_code = NotExited

\* the files the code-quality hook scans while the other two hooks run: one
\* without a violation and one that is a run of MAX_COMMENTED_BLOCK comments
HookFiles ==
  { SmallFile, [k \in 1..MAX_COMMENTED_BLOCK |-> "# import foo\n"] }

InitHooks ==
  /\ cdp = CdpStart(0, 0)
  /\ block \in { HookStart(d) : d \in BlockInputs }
  /\ protect \in { HookStart(d) : d \in ProtectInputs }
  /\ fault = "none"
  /\ pc = "parse"
  /\ lines = <<>>
  /\ violations = <<>>
  /\ stderr = <<>>
  /\ exit_code = NotExited
  /\ data = GoodData
  /\ disk \in { [isfile |-> TRUE, readable |-> TRUE, content |-> c] : c \in HookFiles }

SpecHooks == InitHooks /\ [][NextHooks]_vars

\* the hook has ended its run by refusing the command or the path
Blocked(h) ==
  h.pc = "exited" /\ h.stderr # <<>> /\ h.stderr[1][1] = "BLOCKED: "

BucketFiles ==
  FilesOf(ChunksOf({ "    x = 1\n", "\t\t\t\t\tx\n", "\t\t\t\t\t\t\n" },
                   { "    x = 1\n", "\t\t\t\t\tx\n" },
                   { 0, 8 }),
          MaxChunks)

SpecBucket == InitOn(BucketFiles) /\ [][Next]_vars

\* the 10-line buckets that hold a too-deep non-blank line
DeepBuckets(ls) == { i \div 10 : i \in DeepLines(ls) }

\* the first too-deep non-blank line (0-based) of bucket b
FirstDeepIn(ls, b) ==
  CHOOSE i \in DeepLines(ls) :
    /\ i \div 10 = b
    /\ \A j \in DeepLines(ls) : j \div 10 = b => i <= j

\* the k-th bucket of DeepBuckets in ascending order
KthDeepBucket(ls, k) ==
  CHOOSE b \in DeepBuckets(ls) :
    Cardinality({ c \in DeepBuckets(ls) : c < b }) = k - 1

\* C21: check_nesting_depth returns one violation for each 10-line bucket
\* that holds a non-blank line deeper than 4, in ascending order of bucket;
\* the violation of a bucket cites the first such line of the bucket, 1-based,
\* with that line's depth.
C21_OneViolationPerDeepBucket ==
  AfterNestingDepth =>
    LET vs == check_nesting_depth(lines)
    IN  /\ Len(vs) = Cardinality(DeepBuckets(lines))
        /\ \A k \in 1..Len(vs) :
             LET i == FirstDeepIn(lines, KthDeepBucket(lines, k))
             IN  vs[k] = << "  Line ", ToString(i + 1), ": nesting depth ",
                            ToString(Depth[lines[i + 1]]), " (max ", "4", ")" >>
        /\ \A k \in 1..Len(vs) : \E j \in 1..Len(violations) : violations[j] = vs[k]

\* the lines at indexes 9 and 10 are the first too-deep lines of the file:
\* two violations, citing lines 10 and 11
C21_Witness ==
  /\ AfterNestingDepth
  /\ Len(lines) >= 11
  /\ DeepLines(lines) \cap 0..10 = { 9, 10 }
  /\ Len(check_nesting_depth(lines)) = 2
  /\ check_nesting_depth(lines)[1][2] = "10"
  /\ check_nesting_depth(lines)[2][2] = "11"

\* the blank lines (0-based) whose whitespace alone is deeper than 4
DeepBlankLines(ls) ==
  { i \in 0..(Len(ls) - 1) : IsBlank[ls[i + 1]] /\ Depth[ls[i + 1]] > 4 }

\* C22: a line that is empty once trimmed is cited by no nesting violation,
\* whatever its tabs or spaces, and does not use up its bucket: when a
\* non-blank too-deep line follows it in the same bucket, and none precedes
\* it there, that later line is the one the bucket's violation cites.
C22_BlankLinesSkipped ==
  AfterNestingDepth =>
    LET vs == check_nesting_depth(lines)
    IN  /\ \A i \in 0..(Len(lines) - 1) :
             IsBlank[lines[i + 1]] =>
               \A k \in 1..Len(vs) : vs[k][2] # ToString(i + 1)
        /\ \A i \in DeepBlankLines(lines) :
             \A j \in DeepLines(lines) :
               (/\ j > i
                /\ j \div 10 = i \div 10
                /\ \A m \in DeepLines(lines) : m \div 10 = j \div 10 => j <= m) =>
                 \E k \in 1..Len(vs) : vs[k] = NestingMessage(j, Depth[lines[j + 1]])

\* a blank line of 6 tabs opens the file and a too-deep line follows it in
\* bucket 0: the violation cites the later line
C22_Witness ==
  /\ AfterNestingDepth
  /\ 0 \in DeepBlankLines(lines)
  /\ \E j \in DeepLines(lines) :
       /\ j \in 1..9
       /\ check_nesting_depth(lines)[1] = NestingMessage(j, Depth[lines[j + 1]])

\* the identifier that follows the first keyword of each start line of the
\* alphabet, `anonymous` where the line has no keyword
NameAfterKeyword ==
     "def foo():\n" :> "foo"
  @@ "function bar() {\n" :> "bar"
  @@ "const f = (a) => {\n" :> "f"
  @@ "const x = 5\n" :> "x"
  @@ "public run() {\n" :> "anonymous"

\* C23: every line that matches the start pattern opens a span, and the span
\* is named by the identifier after the first keyword of that line, or
\* `anonymous` when the line has none, as a method signature with a
\* visibility qualifier; a violation carries the name found on the line it
\* cites, and a line without a name ends no scan.
C23_NameOfOwnStartLine ==
  /\ \A l \in Lines : IsFuncStart[l] <=> l \in DOMAIN NameAfterKeyword
  /\ AfterFunctionSize =>
       LET scan == FunctionScan(lines)
       IN  /\ Len(scan.spans) = Cardinality(StartIndices(lines))
           /\ \A k \in 1..Len(scan.spans) :
                scan.spans[k].name = NameAfterKeyword[lines[scan.spans[k].start_line + 1]]
           /\ \A k \in 1..Len(scan.violations) :
                \E s \in StartIndices(lines) :
                  /\ scan.violations[k][2] = ToString(s + 1)
                  /\ scan.violations[k][4] = NameAfterKeyword[lines[s + 1]]
           /\ \A k \in 1..Len(scan.violations) :
                \E j \in 1..Len(violations) : violations[j] = scan.violations[k]

\* a long function named foo, then a long method on whose line no name is
\* found: the second violation says `anonymous`, not `foo`
C23_Witness ==
  /\ AfterFunctionSize
  /\ Len(violations) = 2
  /\ violations[1][4] = "foo"
  /\ violations[2][4] = "anonymous"
  /\ \E s \in StartIndices(lines) :
       lines[s + 1] = "public run() {\n" /\ violations[2][2] = ToString(s + 1)

\* C24: from the read to the report the list of lines is the one read from
\* the file; the step of each detector leaves it as it is and adds to the
\* report the detector's result on those lines, whatever the report holds
\* by then: no detector's result depends on a detector run before it.
C24_DetectorsIndependent ==
  /\ []((MidScan \/ pc = "report") => lines = disk.content)
  /\ [][MidScan => lines' = lines]_vars
  /\ [][pc = "function_size" =>
          violations' = violations \o check_function_size(disk.content)]_vars
  /\ [][pc = "nesting_depth" =>
          violations' = violations \o check_nesting_depth(disk.content)]_vars
  /\ [][pc = "file_size" =>
          violations' = violations \o check_file_size(disk.content)]_vars
  /\ [][pc = "commented_blocks" =>
          violations' = violations \o check_commented_blocks(disk.content)]_vars

\* the four detectors have run on a file in which each of them finds a
\* violation, and the lines are still those of the file
C24_Witness ==
  /\ pc = "report"
  /\ lines = disk.content
  /\ check_function_size(lines) # <<>> /\ check_nesting_depth(lines) # <<>>
  /\ check_file_size(lines) # <<>> /\ check_commented_blocks(lines) # <<>>
  /\ Len(violations) = Len(check_function_size(lines)) + Len(check_nesting_depth(lines))
                         + Len(check_file_size(lines)) + Len(check_commented_blocks(lines))

\* the first start line (0-based) of a file that has one
FirstStart(ls) ==
  CHOOSE s \in StartIndices(ls) : \A j \in StartIndices(ls) : s <= j

\* C25: the lines before the first start line belong to no span. A file
\* without a start line gets no span and no violation, however long it is;
\* otherwise the first span begins at the first start line, its length is
\* counted from there, and no violation cites a line before it.
C25_LinesBeforeFirstStart ==
  AfterFunctionSize =>
    LET scan == FunctionScan(lines)
    IN  IF StartIndices(lines) = {}
          THEN scan.spans = <<>> /\ check_function_size(lines) = <<>>
          ELSE /\ scan.spans[1].start_line = FirstStart(lines)
               /\ \A k \in 1..Len(scan.spans) : scan.spans[k].start_line >= FirstStart(lines)
               /\ \A k \in 1..Len(scan.violations) :
                    /\ \A j \in 1..FirstStart(lines) : scan.violations[k][2] # ToString(j)
                    /\ scan.violations[k][2] = ToString(FirstStart(lines) + 1) =>
                         scan.violations[k][6]
                           = ToString(scan.spans[1].end_line - FirstStart(lines))
               /\ (scan.spans[1].end_line - FirstStart(lines) <= MAX_FUNCTION_LINES) =>
                    \A k \in 1..Len(scan.violations) :
                      scan.violations[k][2] # ToString(FirstStart(lines) + 1)

\* 60 lines without a start, then a function of exactly 50 lines: a file of
\* 110 lines and no violation
C25_Witness ==
  /\ AfterFunctionSize
  /\ StartIndices(lines) = { 60 }
  /\ Len(lines) = 60 + MAX_FUNCTION_LINES
  /\ violations = <<>>

\* the sample commands that is_dangerous of block_dangerous.py lets pass
HarmlessCommands == { "", "  ", "ls -la", "git status", "dd if=a\nof=/dev/sda" }

\* C26: a run of block_dangerous ends with status 2, 0 or 1: with 2, and
\* `BLOCKED` printed, exactly when stdin is a JSON object whose command is
\* not empty and is_dangerous finds it dangerous, which of the sample
\* commands is every one but the harmless five; with 0, and nothing printed,
\* when the command is missing, empty or not dangerous; with 1 when stdin is
\* no JSON or an exception is raised. No dangerous command ends with 0.
C26_BlockDangerousStatus ==
  /\ block.pc = "start" => block.exit_code = NotExited
  /\ block.pc = "exited" =>
       LET d == block.data
           dangerous == d.json = "object" /\ d.command # ""
                          /\ is_dangerous(d.command).dangerous
       IN  /\ block.exit_code \in { 0, 1, 2 }
           /\ (block.exit_code = 2) <=> dangerous
           /\ (block.exit_code = 2) <=>
                (d.json = "object" /\ d.command \in Commands \ HarmlessCommands)
           /\ (block.exit_code = 2) <=> Blocked(block)
           /\ (block.exit_code = 1) <=> (d.json # "object")
           /\ (block.exit_code = 0) <=> (d.json = "object" /\ ~dangerous)
           /\ (block.exit_code = 0) => block.stderr = <<>>
           /\ (block.exit_code = 1) =>
                (Len(block.stderr) = 1 /\ block.stderr[1][1] \in
                   { "Hook error: Invalid JSON input", "Hook error: " })

\* a command that only a pattern, matched without regard to case, finds
\* dangerous has been blocked
C26_Witness ==
  /\ block.pc = "exited"
  /\ block.data.command = "Drop Table users"
  /\ block.exit_code = 2
  /\ block.stderr[1][2] = "Matched dangerous pattern: "

\* cdp_connect.py alone, started at some time with some --timeout
InitCdp ==
  /\ cdp \in { CdpStart(t, n) : t \in 0..MaxTimeout, n \in { 0, 3 } }
  /\ block = HookStart([json |-> "object", command |-> ""])
  /\ protect = HookStart([json |-> "object", file_path |-> ""])
  /\ fault = "none"
  /\ pc = "parse"
  /\ lines = <<>>
  /\ violations = <<>>
  /\ stderr = <<>>
  /\ exit_code = NotExited
  /\ data = GoodData
  /\ disk = [isfile |-> TRUE, readable |-> TRUE, content |-> SmallFile]

\* the interpreter goes on to the next statement; every fetch and every
\* sleep comes to an end
SpecCdp == InitCdp /\ [][NextCdp]_vars /\ WF_vars(NextCdp)

\* poll_cdp has returned, or an exception has left it
PollOver == cdp.pc \in { "returned", "found", "raised", "exited", "crashed" }

\* C27: poll_cdp comes to an end. It returns only the list of its first
\* successful fetch, which is its last attempt; RuntimeError is raised only
\* when no fetch has succeeded and at least --timeout seconds have passed
\* since the start; every failed attempt is followed by a sleep before the
\* loop goes on; and nothing is attempted once poll_cdp is over.
C27_PollCdpTerminates ==
  /\ <>PollOver
  /\ [](cdp.pc \in { "returned", "found" } =>
          /\ Len(cdp.fetched) = 1
          /\ cdp.targets = cdp.fetched[1]
          /\ cdp.log # <<>> /\ cdp.log[Len(cdp.log)] = "ok"
          /\ \A k \in 1..(Len(cdp.log) - 1) : cdp.log[k] \in { "fail", "sleep" })
  /\ [](cdp.pc \in { "raised", "exited" } =>
          /\ cdp.fetched = <<>>
          /\ \A k \in 1..Len(cdp.log) : cdp.log[k] # "ok"
          /\ cdp.now - cdp.start >= 2 * cdp.timeout)
  /\ [](\A k \in 1..Len(cdp.log) :
          cdp.log[k] = "fail" =>
            IF k < Len(cdp.log) THEN cdp.log[k + 1] = "sleep" ELSE cdp.pc = "sleep")
  /\ [][PollOver => (cdp.log' = cdp.log /\ cdp.fetched' = cdp.fetched)]_vars
  /\ [](cdp.pc = "exited" => cdp.exit_code = 1)

\* two failed attempts, each followed by a sleep, then a fetch that
\* succeeds, whose two targets poll_cdp has returned
C27_Witness ==
  /\ cdp.pc = "returned"
  /\ cdp.log = << "fail", "sleep", "fail", "sleep", "ok" >>
  /\ cdp.targets = << "other", "page" >>
=============================================================================
